---- MODULE Spec2Model ----
(***************************************************************************)
(* File ingestion and reconciliation pipeline of FTP_MODULE/FTP_CLIENT:    *)
(* the processed_ftp_files queue (DBQueue), the entity resolver and batch  *)
(* upserter (DataProcessor), the per-provider reconciler (ChangeDetector)  *)
(* and the sequential batch run (FTPProcessor, HealthcareFTPOrchestrator). *)
(*                                                                         *)
(* Text values are tuples of tokens; the separators "_" and "::" that the  *)
(* code joins and splits on are tokens of their own, so that formatting a  *)
(* key and splitting it again is computed, not assumed to round-trip.      *)
(***************************************************************************)
EXTENDS Integers, Sequences, FiniteSets, TLC

\* ------------------------------------------------------------------------
\* Values
\* ------------------------------------------------------------------------

\* Python None / SQL NULL (a reserved one-token value, distinct from any text)
None == <<"%None%">>

\* the empty string
EmptyStr == <<>>

\* absent identifier (None where an id is expected)
NoId == 0

\* str(value): None prints as the text "None"
Str(v) == IF v = None THEN <<"None">> ELSE v

\* Python truthiness of a cell: None and "" are falsy
Truthy(v) == v # None /\ v # EmptyStr

Max(S) == IF S = {} THEN 0 ELSE CHOOSE m \in S : \A x \in S : x <= m

Min(S) == CHOOSE m \in S : \A x \in S : m <= x

Range(f) == {f[i] : i \in DOMAIN f}

\* the column names used by the pipeline
Columns ==
  {"Provider Name", "City", "State", "Zip Code", "Service Name", "Service Code",
   "Service Category", "Insurance Name", "Plan Name", "Standard Charge",
   "Negotiated Price", "In Network"}

\* one parsed row: column name -> text or None (file_parser.parse_files)
Row(pn, city, st, zip, sn, sc, cat, ins, plan, std, neg, net) ==
  [c \in Columns |->
     CASE c = "Provider Name" -> pn
       [] c = "City" -> city
       [] c = "State" -> st
       [] c = "Zip Code" -> zip
       [] c = "Service Name" -> sn
       [] c = "Service Code" -> sc
       [] c = "Service Category" -> cat
       [] c = "Insurance Name" -> ins
       [] c = "Plan Name" -> plan
       [] c = "Standard Charge" -> std
       [] c = "Negotiated Price" -> neg
       [] OTHER -> net]

\* ------------------------------------------------------------------------
\* utils/data_utils.py
\* ------------------------------------------------------------------------

\* "::".join(str(row.get(k)) for k in keys); sha256 of the joined text is
\* taken to be injective, so the joined text stands for its digest
RECURSIVE JoinFields(_, _)
JoinFields(row, keys) ==
  IF Len(keys) = 0 THEN <<>>
  ELSE IF Len(keys) = 1 THEN Str(row[keys[1]])
  ELSE Str(row[keys[1]]) \o <<"::">> \o JoinFields(row, Tail(keys))

hash_row(row, keys) == JoinFields(row, keys)

\* value.lower().strip() of a one-token numeric cell
LowerStrip(tok) ==
  CASE tok \in {"nan", "NaN", "NAN", " nan "} -> "nan"
    [] tok \in {"null", "NULL"} -> "null"
    [] tok \in {"none", "None"} -> "none"
    [] OTHER -> tok

\* str(float(tok)) for the literals float() accepts; anything else raises
\* ValueError
FloatLiterals ==
  [t \in {"10", "10.50", " 20 ", "1e2", "0", "inf"} |->
     CASE t = "10" -> "10.0"
       [] t = "inf" -> "inf"
       [] t = "10.50" -> "10.5"
       [] t = " 20 " -> "20.0"
       [] t = "1e2" -> "100.0"
       [] OTHER -> "0.0"]

\* safe_float: None, "", NaN sentinels and unparsable text give None;
\* the result is carried as str(result), the form process_pricing stages
safe_float(value) ==
  IF value = EmptyStr \/ value = None THEN None
  ELSE IF Len(value) # 1 THEN None
  ELSE IF LowerStrip(value[1]) \in {"nan", "null", "none"} THEN None
  ELSE IF value[1] \in DOMAIN FloatLiterals THEN <<FloatLiterals[value[1]]>>
  ELSE None

\* an identifier the store holds that uuid.UUID() does not parse
MalformedId == NoId - 1

\* is_valid_uuid: None is not an identifier and a text that uuid.UUID()
\* rejects is not one either; generated ids are
is_valid_uuid(id) == id # NoId /\ id # MalformedId

\* generate_uuid: a fresh identifier, canonically the next unused number
generate_uuid(used) == Max(used \cup {NoId}) + 1

\* ------------------------------------------------------------------------
\* The store (Supabase tables other than the queue)
\* ------------------------------------------------------------------------

EmptyDb ==
  [providers |-> {}, services |-> {}, insurance |-> {},
   provider_services |-> {}, service_insurance |-> {}, service_pricing |-> {}]

\* result.data[0] of an unordered select: the row inserted first
FirstRow(rows, idcol) == CHOOSE r \in rows : \A o \in rows : r[idcol] <= o[idcol]

\* ------------------------------------------------------------------------
\* data/processor/data_processor.py : DataProcessor
\* ------------------------------------------------------------------------

\* DataProcessor.__init__ / clear_caches: three caches, six staging collections
EmptyDp ==
  [provider_cache |-> <<>>, service_cache |-> <<>>, insurance_cache |-> <<>>,
   providers_to_upsert |-> {}, services_to_upsert |-> {},
   insurances_to_upsert |-> {}, provider_services_to_upsert |-> {},
   service_insurance_to_upsert |-> {}, service_pricing_to_upsert |-> {}]

\* a variant of clear_caches that clears the three caches only
clear_caches_keeping_staged(dp) ==
  [dp EXCEPT !.provider_cache = <<>>, !.service_cache = <<>>, !.insurance_cache = <<>>]

clear_caches(dp) == EmptyDp

\* every provider / service / insurance identifier in use anywhere
UsedProviderIds(dp, db) ==
  {r.provider_id : r \in db.providers} \cup {r.provider_id : r \in dp.providers_to_upsert}
    \cup Range(dp.provider_cache) \cup {t[1] : t \in db.provider_services}
    \cup {r.provider_id : r \in db.service_pricing}

UsedServiceIds(dp, db) ==
  {r.service_id : r \in db.services} \cup {r.service_id : r \in dp.services_to_upsert}
    \cup Range(dp.service_cache) \cup {t[2] : t \in db.provider_services}
    \cup {t[1] : t \in db.service_insurance}
    \cup {r.service_id : r \in db.service_pricing}

UsedInsuranceIds(dp, db) ==
  {r.insurance_id : r \in db.insurance} \cup {r.insurance_id : r \in dp.insurances_to_upsert}
    \cup Range(dp.insurance_cache) \cup {t[2] : t \in db.service_insurance}
    \cup {r.insurance_id : r \in db.service_pricing}

\* _get_existing_id: the id of the first matching row, None when there is no
\* match or when the select raises (lookupOk = FALSE)
_get_existing_id(matches, id_column, lookupOk) ==
  IF lookupOk /\ matches # {} THEN FirstRow(matches, id_column)[id_column] ELSE NoId

provider_key_fields == <<"Provider Name", "City", "Zip Code">>

service_key_fields == <<"Service Name", "Service Code">>

insurance_key_fields == <<"Insurance Name", "Plan Name">>

\* a variant of CachePut that forgets the entry
CacheSkip(cache, key, id) == cache

\* self.<entity>_cache[key] = id
CachePut(cache, key, id) == (key :> id) @@ cache

\* process_provider: cache, then store lookup by (name, city, zip), then a
\* generated id with a staged payload; the cache entry is written either way
process_provider(dp, db, row_dict, lookupOk) ==
  IF \A i \in 1..Len(provider_key_fields) : Truthy(row_dict[provider_key_fields[i]])
  THEN LET provider_key == hash_row(row_dict, provider_key_fields)
       IN IF provider_key \in DOMAIN dp.provider_cache
          THEN [dp |-> dp, id |-> dp.provider_cache[provider_key]]
          ELSE LET matches == {r \in db.providers :
                                 /\ r.provider_name = row_dict["Provider Name"]
                                 /\ r.provider_city = row_dict["City"]
                                 /\ r.provider_zip = row_dict["Zip Code"]}
                   existing == _get_existing_id(matches, "provider_id", lookupOk)
                   provider_id == IF existing # NoId THEN existing
                                  ELSE generate_uuid(UsedProviderIds(dp, db))
                   provider_data == [provider_id |-> provider_id,
                                     provider_name |-> row_dict["Provider Name"],
                                     provider_city |-> row_dict["City"],
                                     provider_state |-> row_dict["State"],
                                     provider_zip |-> row_dict["Zip Code"]]
                   staged == IF existing # NoId THEN dp.providers_to_upsert
                             ELSE dp.providers_to_upsert \cup {provider_data}
              IN [dp |-> [dp EXCEPT !.providers_to_upsert = staged,
                                    !.provider_cache = CachePut(@, provider_key, provider_id)],
                  id |-> provider_id]
  ELSE [dp |-> dp, id |-> NoId]

\* process_service: cache keyed by (name, code), store lookup by code alone
process_service(dp, db, row_dict, lookupOk) ==
  IF \A i \in 1..Len(service_key_fields) : Truthy(row_dict[service_key_fields[i]])
  THEN LET service_key == hash_row(row_dict, service_key_fields)
       IN IF service_key \in DOMAIN dp.service_cache
          THEN [dp |-> dp, id |-> dp.service_cache[service_key]]
          ELSE LET matches == {r \in db.services :
                                 r.service_code = row_dict["Service Code"]}
                   existing == _get_existing_id(matches, "service_id", lookupOk)
                   service_id == IF existing # NoId THEN existing
                                 ELSE generate_uuid(UsedServiceIds(dp, db))
                   service_data == [service_id |-> service_id,
                                    service_name |-> row_dict["Service Name"],
                                    service_code |-> row_dict["Service Code"],
                                    service_category |-> row_dict["Service Category"]]
                   staged == IF existing # NoId THEN dp.services_to_upsert
                             ELSE dp.services_to_upsert \cup {service_data}
              IN [dp |-> [dp EXCEPT !.services_to_upsert = staged,
                                    !.service_cache = CachePut(@, service_key, service_id)],
                  id |-> service_id]
  ELSE [dp |-> dp, id |-> NoId]

\* process_insurance: only when both insurance name and plan are present
process_insurance(dp, db, row_dict, lookupOk) ==
  IF Truthy(row_dict["Insurance Name"]) /\ Truthy(row_dict["Plan Name"])
  THEN LET insurance_key == hash_row(row_dict, insurance_key_fields)
       IN IF insurance_key \in DOMAIN dp.insurance_cache
          THEN [dp |-> dp, id |-> dp.insurance_cache[insurance_key]]
          ELSE LET matches == {r \in db.insurance :
                                 /\ r.insurance_name = row_dict["Insurance Name"]
                                 /\ r.insurance_plan = row_dict["Plan Name"]}
                   existing == _get_existing_id(matches, "insurance_id", lookupOk)
                   insurance_id == IF existing # NoId THEN existing
                                   ELSE generate_uuid(UsedInsuranceIds(dp, db))
                   insurance_data == [insurance_id |-> insurance_id,
                                      insurance_name |-> row_dict["Insurance Name"],
                                      insurance_plan |-> row_dict["Plan Name"]]
                   staged == IF existing # NoId THEN dp.insurances_to_upsert
                             ELSE dp.insurances_to_upsert \cup {insurance_data}
              IN [dp |-> [dp EXCEPT !.insurances_to_upsert = staged,
                                    !.insurance_cache = CachePut(@, insurance_key, insurance_id)],
                  id |-> insurance_id]
  ELSE [dp |-> dp, id |-> NoId]

\* FIELD_MAPPINGS of src/utils/const.py: logical field keys to the column
\* names they may appear under; it holds no entry under a final header name
FIELD_MAPPINGS == [k \in {} |-> <<>>]

\* _get_field_value: the first of the possible column names that the row
\* carries with a value, None when there is none
_get_field_value(row_dict, field_key) ==
  LET possible_names == IF field_key \in DOMAIN FIELD_MAPPINGS
                        THEN FIELD_MAPPINGS[field_key] ELSE <<field_key>>
      present == {i \in 1..Len(possible_names) :
                    /\ possible_names[i] \in DOMAIN row_dict
                    /\ row_dict[possible_names[i]] # None}
  IN IF present = {} THEN None ELSE row_dict[possible_names[Min(present)]]

\* the in-network tri-state of process_pricing: only the spellings
\* True/true and False/false are recognised, anything else is unknown
ParseInNetwork(innetwork_str) ==
  IF innetwork_str \in {<<"True">>, <<"true">>} THEN <<"TRUE">>
  ELSE IF innetwork_str \in {<<"False">>, <<"false">>} THEN <<"FALSE">>
  ELSE None

\* the tuple process_pricing stages for a row
PricingTuple(row_dict, provider_id, service_id, insurance_id) ==
  <<provider_id, service_id, insurance_id,
    safe_float(_get_field_value(row_dict, "Negotiated Price")),
    ParseInNetwork(row_dict["In Network"]),
    safe_float(_get_field_value(row_dict, "Standard Charge"))>>

\* a variant of process_pricing that turns the row down when the standard
\* charge does not parse
process_pricing_requiring_charge(dp, row_dict, provider_id, service_id, insurance_id) ==
  LET standard_charge == safe_float(_get_field_value(row_dict, "Standard Charge"))
  IN IF standard_charge = None THEN [dp |-> dp, success |-> FALSE]
     ELSE [dp |-> [dp EXCEPT
                     !.provider_services_to_upsert = @ \cup {<<provider_id, service_id>>},
                     !.service_insurance_to_upsert =
                        IF insurance_id # NoId THEN @ \cup {<<service_id, insurance_id>>} ELSE @,
                     !.service_pricing_to_upsert =
                        @ \cup {PricingTuple(row_dict, provider_id, service_id, insurance_id)}],
           success |-> TRUE]

\* process_pricing: stages the provider-service pair only when the standard
\* charge parses, always stages the pricing tuple, stages the
\* service-insurance pair when there is an insurance; returns True
process_pricing(dp, row_dict, provider_id, service_id, insurance_id) ==
  LET standard_charge == safe_float(_get_field_value(row_dict, "Standard Charge"))
      ps == IF standard_charge # None
            THEN dp.provider_services_to_upsert \cup {<<provider_id, service_id>>}
            ELSE dp.provider_services_to_upsert
      si == IF insurance_id # NoId
            THEN dp.service_insurance_to_upsert \cup {<<service_id, insurance_id>>}
            ELSE dp.service_insurance_to_upsert
  IN [dp |-> [dp EXCEPT !.provider_services_to_upsert = ps,
                        !.service_insurance_to_upsert = si,
                        !.service_pricing_to_upsert =
                           @ \cup {PricingTuple(row_dict, provider_id, service_id, insurance_id)}],
      success |-> TRUE]

\* a variant of process_row that rejects a row whose insurance does not
\* resolve
process_row_requiring_insurance(dp, db, row_dict, lookupOk) ==
  LET p == process_provider(dp, db, row_dict, lookupOk["providers"])
  IN IF ~is_valid_uuid(p.id)
     THEN [dp |-> p.dp, success |-> FALSE, error |-> "Invalid/missing provider identifier"]
     ELSE LET s == process_service(p.dp, db, row_dict, lookupOk["services"])
          IN IF ~is_valid_uuid(s.id)
             THEN [dp |-> s.dp, success |-> FALSE, error |-> "Invalid/missing service identifier"]
             ELSE LET i == process_insurance(s.dp, db, row_dict, lookupOk["insurance"])
                  IN IF ~is_valid_uuid(i.id)
                     THEN [dp |-> i.dp, success |-> FALSE,
                           error |-> "Invalid/missing insurance identifier"]
                     ELSE [dp |-> process_pricing(i.dp, row_dict, p.id, s.id, i.id).dp,
                           success |-> TRUE, error |-> ""]

\* process_row: provider, service, insurance (optional), pricing.
\* lookupOk[t] = FALSE makes the store lookup in table t raise.
process_row(dp, db, row_dict, lookupOk) ==
  LET p == process_provider(dp, db, row_dict, lookupOk["providers"])
  IN IF ~is_valid_uuid(p.id)
     THEN [dp |-> p.dp, success |-> FALSE, error |-> "Invalid/missing provider identifier"]
     ELSE LET s == process_service(p.dp, db, row_dict, lookupOk["services"])
          IN IF ~is_valid_uuid(s.id)
             THEN [dp |-> s.dp, success |-> FALSE, error |-> "Invalid/missing service identifier"]
             ELSE LET i == process_insurance(s.dp, db, row_dict, lookupOk["insurance"])
                      insurance_id == IF is_valid_uuid(i.id) THEN i.id ELSE NoId
                      pr == process_pricing(i.dp, row_dict, p.id, s.id, insurance_id)
                  IN IF ~pr.success
                     THEN [dp |-> pr.dp, success |-> FALSE, error |-> "Failed to process pricing data"]
                     ELSE [dp |-> pr.dp, success |-> TRUE, error |-> ""]

AllLookupsOk == [t \in {"providers", "services", "insurance"} |-> TRUE]

\* bulk upsert of entity rows keyed by their id column
UpsertById(table, rows, idcol) ==
  {r \in table : \A n \in rows : n[idcol] # r[idcol]} \cup rows

\* the service_pricing record _insert_service_pricing builds from a staged tuple
PricingRecord(t) ==
  [provider_id |-> t[1], service_id |-> t[2], insurance_id |-> t[3],
   negotiated_price |-> t[4], in_network |-> t[5], standard_price |-> t[6]]

PricingKey(r) == <<r.provider_id, r.service_id, r.insurance_id>>

\* a service_pricing row as the store keeps it: the record under a
\* pricing_id of its own
StoredPricing(pricing_id, rec) ==
  [pricing_id |-> pricing_id, provider_id |-> rec.provider_id,
   service_id |-> rec.service_id, insurance_id |-> rec.insurance_id,
   negotiated_price |-> rec.negotiated_price, in_network |-> rec.in_network,
   standard_price |-> rec.standard_price]

\* whether two rows collide on (provider_id, service_id, insurance_id): equal
\* keys collide, except that keys with a null insurance_id never do when the
\* unique index keeps nulls distinct
KeysCollide(a, b, nulls_distinct) ==
  /\ PricingKey(a) = PricingKey(b)
  /\ (a.insurance_id # NoId \/ ~nulls_distinct)

\* the rows of an upsert that collide with no stored row are inserted, each
\* under a new pricing_id
RECURSIVE InsertPricing(_, _)
InsertPricing(table, rows) ==
  IF rows = {} THEN table
  ELSE LET n == CHOOSE x \in rows : TRUE
       IN InsertPricing(
            table \cup {StoredPricing(Max({r.pricing_id : r \in table}) + 1, n)},
            rows \ {n})

\* upsert on_conflict (provider_id, service_id, insurance_id): a row that
\* collides with a stored row overwrites it, the others are inserted
UpsertPricing(table, rows, nulls_distinct) ==
  LET hit(r) == {n \in rows : KeysCollide(n, r, nulls_distinct)}
      updated == {IF hit(r) = {} THEN r
                  ELSE StoredPricing(r.pricing_id, CHOOSE n \in hit(r) : TRUE) : r \in table}
      fresh == {n \in rows : \A r \in table : ~KeysCollide(n, r, nulls_distinct)}
  IN InsertPricing(updated, fresh)

\* a bulk upsert that carries two rows colliding with each other is rejected
\* by the store as a whole
PricingBatchAccepted(rows, nulls_distinct) ==
  \A a, b \in rows : KeysCollide(a, b, nulls_distinct) => a = b

UpsertTables ==
  {"providers", "services", "insurance", "provider_services",
   "service_insurance", "service_pricing"}

AllUpsertsOk == [t \in UpsertTables |-> TRUE]

\* do_database_insertion: providers, services, insurance, then
\* provider_services, service_insurance, service_pricing; each bulk upsert is
\* attempted when its staging collection is non-empty, an upsert that raises
\* (upsertOk[t] = FALSE) leaves its table alone and adds an error.
\* nulls_distinct: how the store's unique index on service_pricing treats a
\* null insurance_id
do_database_insertion(dp, db, upsertOk, nulls_distinct) ==
  LET pricing_rows == {PricingRecord(t) : t \in dp.service_pricing_to_upsert}
      pricing_ok == /\ upsertOk["service_pricing"]
                    /\ PricingBatchAccepted(pricing_rows, nulls_distinct)
      attempted ==
        {t \in UpsertTables :
           CASE t = "providers" -> dp.providers_to_upsert # {}
             [] t = "services" -> dp.services_to_upsert # {}
             [] t = "insurance" -> dp.insurances_to_upsert # {}
             [] t = "provider_services" -> dp.provider_services_to_upsert # {}
             [] t = "service_insurance" -> dp.service_insurance_to_upsert # {}
             [] OTHER -> dp.service_pricing_to_upsert # {}}
      done == {t \in attempted :
                 IF t = "service_pricing" THEN pricing_ok ELSE upsertOk[t]}
      newdb ==
        [providers |->
           IF "providers" \in done
           THEN UpsertById(db.providers, dp.providers_to_upsert, "provider_id")
           ELSE db.providers,
         services |->
           IF "services" \in done
           THEN UpsertById(db.services, dp.services_to_upsert, "service_id")
           ELSE db.services,
         insurance |->
           IF "insurance" \in done
           THEN UpsertById(db.insurance, dp.insurances_to_upsert, "insurance_id")
           ELSE db.insurance,
         provider_services |->
           IF "provider_services" \in done
           THEN db.provider_services \cup dp.provider_services_to_upsert
           ELSE db.provider_services,
         service_insurance |->
           IF "service_insurance" \in done
           THEN db.service_insurance \cup dp.service_insurance_to_upsert
           ELSE db.service_insurance,
         service_pricing |->
           IF "service_pricing" \in done
           THEN UpsertPricing(db.service_pricing, pricing_rows, nulls_distinct)
           ELSE db.service_pricing]
  IN [db |-> newdb, attempted |-> attempted, errors |-> attempted \ done]

\* ------------------------------------------------------------------------
\* services/change_detector.py : ChangeDetector
\* ------------------------------------------------------------------------

\* extract_unique_entities_from_dataframe, services part: the keys
\* f"{row['Service Category']}_{row['Service Code']}" of the batch
csv_services(df) ==
  {Str(df[i]["Service Category"]) \o <<"_">> \o Str(df[i]["Service Code"]) :
     i \in 1..Len(df)}

\* service_key.split("_", 1): the text before and after the first "_"
SplitFirst(key) ==
  LET idx == {i \in 1..Len(key) : key[i] = "_"}
  IN IF idx = {} THEN <<key>>
     ELSE <<SubSeq(key, 1, Min(idx) - 1), SubSeq(key, Min(idx) + 1, Len(key))>>

\* the persisted service ids the batch's service keys resolve to
current_service_ids(db, df) ==
  {FirstRow({r \in db.services :
               /\ r.service_category = SplitFirst(k)[1]
               /\ r.service_code = SplitFirst(k)[2]}, "service_id").service_id :
     k \in {key \in csv_services(df) :
              /\ Len(SplitFirst(key)) = 2
              /\ \E r \in db.services :
                   /\ r.service_category = SplitFirst(key)[1]
                   /\ r.service_code = SplitFirst(key)[2]}}

\* provider_info as process_single_file builds it from the first row
ProviderInfo(df) ==
  [name |-> Str(df[1]["Provider Name"]), city |-> Str(df[1]["City"]),
   state |-> Str(df[1]["State"]), zip_code |-> Str(df[1]["Zip Code"])]

\* a variant of ProviderMatches that leaves the name out of the match
ProviderMatchesByPlace(db, provider_info) ==
  {r \in db.providers :
     /\ r.provider_zip = provider_info.zip_code
     /\ r.provider_state = provider_info.state
     /\ r.provider_city = provider_info.city}

\* the persisted providers matching provider_info on zip, state, city, name
ProviderMatches(db, provider_info) ==
  {r \in db.providers :
     /\ r.provider_zip = provider_info.zip_code
     /\ r.provider_state = provider_info.state
     /\ r.provider_city = provider_info.city
     /\ r.provider_name = provider_info.name}

\* a variant of DeleteRelationships that deletes the rows of the given
\* services whatever their provider
DeleteRelationshipsOfServices(pairs, provider_id, service_ids) ==
  {t \in pairs : t[2] \notin service_ids}

\* a variant of DeleteRelationships that, when there is something to delete,
\* deletes every row of the provider
DeleteRelationshipsOfProvider(pairs, provider_id, service_ids) ==
  {t \in pairs : ~(t[1] = provider_id /\ service_ids # {})}

\* delete().eq("provider_id", provider_id).eq("service_id", service_id) for
\* each of the service ids, on rows given as <<provider_id, service_id, row>>
DeleteRelationships(pairs, provider_id, service_ids) ==
  {t \in pairs : ~(t[1] = provider_id /\ t[2] \in service_ids)}

\* a variant of Deleted in which the first delete that raises ends the loop
DeletedUntilFailure(service_ids, failing) ==
  {s \in service_ids : \A f \in failing : s < f}

\* the service ids whose delete went through: each delete has its own
\* try / except inside the loop, so one that raises stops none of the others
Deleted(service_ids, failing) == service_ids \ failing

\* detect_and_delete_missing_records_for_provider.
\* selectOk = FALSE: one of the selects raises, the outer handler returns
\* success = False before any delete.  psFail / prFail: the stale service ids
\* whose provider_services / service_pricing delete raises.
detect_and_delete_missing_records_for_provider(db, df, provider_info, selectOk, psFail, prFail) ==
  IF ~selectOk
  THEN [db |-> db, success |-> FALSE, found |-> FALSE, provider_id |-> NoId,
        stale |-> {}, relationships |-> 0]
  ELSE IF ProviderMatches(db, provider_info) = {}
  THEN [db |-> db, success |-> TRUE, found |-> FALSE, provider_id |-> NoId,
        stale |-> {}, relationships |-> 0]
  ELSE
    LET provider_id == FirstRow(ProviderMatches(db, provider_info), "provider_id").provider_id
        existing_service_ids == {t[2] : t \in {x \in db.provider_services : x[1] = provider_id}}
        relationships_to_delete == existing_service_ids \ current_service_ids(db, df)
        ps_deleted == Deleted(relationships_to_delete, psFail)
        pr_deleted == Deleted(relationships_to_delete, prFail)
    IN [db |-> [db EXCEPT
                  !.provider_services =
                     {<<t[1], t[2]>> :
                        t \in DeleteRelationships({<<x[1], x[2], x>> : x \in @},
                                                  provider_id, ps_deleted)},
                  !.service_pricing =
                     {t[3] : t \in DeleteRelationships(
                                      {<<r.provider_id, r.service_id, r>> : r \in @},
                                      provider_id, pr_deleted)}],
        success |-> TRUE, found |-> TRUE, provider_id |-> provider_id,
        stale |-> relationships_to_delete,
        relationships |-> Cardinality(ps_deleted)]

\* ------------------------------------------------------------------------
\* utils/file_hash.py and database/db_queue.py : DBQueue
\* The queue (table processed_ftp_files) is the sequence of its records in
\* insertion order; a record's id is its position, which is also the order
\* of created_at.
\* ------------------------------------------------------------------------

\* absent file
NoFile == 0

\* calculate_sha256: None for a missing or unreadable file, otherwise the
\* digest, taken to be injective on file contents
calculate_sha256(content) == IF content = NoFile THEN None ELSE <<"sha256", content>>

\* the timestamp datetime.now().isoformat() writes into processed_at
Stamp == <<"now">>

\* mark_as_failed keeps error_message[:500]
ErrorMessageLimit == 500

\* an error text and its length
ErrorMessage(text, len) == <<text, len>>

\* a variant of Truncate that stores the message whole
TruncateNot(error_message) == error_message

\* str(error_message)[:500]
Truncate(error_message) ==
  <<error_message[1],
    IF error_message[2] > ErrorMessageLimit THEN ErrorMessageLimit ELSE error_message[2]>>

UpdateRecord(q, id, rec) == [q EXCEPT ![id] = rec]

\* a variant of SameHashSkipped that queues a file again while its record still
\* says processing
SameHashSkippedUnlessProcessing(status) == status \in {"completed", "pending"}

\* enqueue_file, the record with the same hash: completed, pending and
\* processing are skipped, what is left (failed) is queued again
SameHashSkipped(status) == status \in {"completed", "pending", "processing"}

\* a variant of ChangedHashUpdate that stores the new hash and leaves the
\* status as it was
ChangedHashUpdateKeepingStatus(rec, file_hash) ==
  [rec EXCEPT !.file_hash = file_hash,
              !.retry_count = 0,
              !.error_message = None,
              !.processed_at = None]

\* enqueue_file, the update written over a record of the same name whose
\* hash differs
ChangedHashUpdate(rec, file_hash) ==
  [rec EXCEPT !.file_hash = file_hash,
              !.status = "pending",
              !.retry_count = 0,
              !.error_message = None,
              !.processed_at = None]

\* a variant of NameConflict that overlooks the record of the same name
NameConflictOverlooked(q, provider_name, filename, file_hash) == {}

\* enqueue_file, the select of records with the same provider and file name
\* and another hash
NameConflict(q, provider_name, filename, file_hash) ==
  {i \in 1..Len(q) : /\ q[i].hospital_name = provider_name
                     /\ q[i].file_name = filename
                     /\ q[i].file_hash # None
                     /\ q[i].file_hash # file_hash}

\* enqueue_file.  storeOk = FALSE: a store call raises after its retries and
\* the handler returns False.
enqueue_file(q, source_provider_uuid, provider_name, filename, file_hash, storeOk) ==
  IF file_hash = None THEN [queue |-> q, result |-> FALSE]
  ELSE IF ~storeOk THEN [queue |-> q, result |-> FALSE]
  ELSE
    LET existing == {i \in 1..Len(q) :
                       /\ q[i].hospital_name = provider_name
                       /\ q[i].file_name = filename
                       /\ q[i].file_hash = file_hash}
        name_conflict == NameConflict(q, provider_name, filename, file_hash)
    IN IF existing # {}
       THEN LET id == Min(existing)
            IN IF SameHashSkipped(q[id].status) THEN [queue |-> q, result |-> FALSE]
               ELSE [queue |-> UpdateRecord(q, id,
                                 [q[id] EXCEPT !.status = "pending",
                                               !.retry_count = 0,
                                               !.error_message = None]),
                     result |-> TRUE]
       ELSE IF name_conflict # {}
       THEN LET id == Min(name_conflict)
            IN [queue |-> UpdateRecord(q, id, ChangedHashUpdate(q[id], file_hash)),
                result |-> TRUE]
       ELSE [queue |-> Append(q, [id |-> Len(q) + 1,
                                  hospital_name |-> provider_name,
                                  file_name |-> filename,
                                  file_hash |-> file_hash,
                                  status |-> "pending",
                                  source_provider_uuid |-> source_provider_uuid,
                                  retry_count |-> 0,
                                  error_message |-> None,
                                  processed_at |-> None]),
             result |-> TRUE]

\* is_file_already_processed: a completed record with that exact name
is_file_already_processed(q, provider_name, filename, storeOk) ==
  /\ storeOk
  /\ \E i \in 1..Len(q) : /\ q[i].hospital_name = provider_name
                          /\ q[i].file_name = filename
                          /\ q[i].status = "completed"

\* mark_as_completed
mark_as_completed(q, file_id, storeOk) ==
  IF storeOk /\ file_id \in 1..Len(q)
  THEN [queue |-> UpdateRecord(q, file_id,
                    [q[file_id] EXCEPT !.status = "completed",
                                       !.processed_at = Stamp,
                                       !.error_message = None]),
        result |-> TRUE]
  ELSE [queue |-> q, result |-> FALSE]

\* mark_as_failed
mark_as_failed(q, file_id, error_message, storeOk) ==
  IF storeOk /\ file_id \in 1..Len(q)
  THEN [queue |-> UpdateRecord(q, file_id,
                    [q[file_id] EXCEPT !.status = "failed",
                                       !.error_message = Truncate(error_message),
                                       !.processed_at = Stamp]),
        result |-> TRUE]
  ELSE [queue |-> q, result |-> FALSE]

\* mark_as_processing
mark_as_processing(q, file_id, storeOk) ==
  IF storeOk /\ file_id \in 1..Len(q)
  THEN [queue |-> UpdateRecord(q, file_id, [q[file_id] EXCEPT !.status = "processing"]),
        result |-> TRUE]
  ELSE [queue |-> q, result |-> FALSE]

\* get_queue_stats, the pending count (zero when the select raises)
PendingCount(q, storeOk) ==
  IF storeOk THEN Cardinality({i \in 1..Len(q) : q[i].status = "pending"}) ELSE 0

\* a variant of FirstN that keeps the n largest positions
RECURSIVE NewestN(_, _)
NewestN(S, n) ==
  IF S = {} \/ n = 0 THEN <<>> ELSE NewestN(S \ {Max(S)}, n - 1) \o <<Max(S)>>

\* the first n elements of the increasing enumeration of a set of positions
RECURSIVE FirstN(_, _)
FirstN(S, n) ==
  IF S = {} \/ n = 0 THEN <<>> ELSE <<Min(S)>> \o FirstN(S \ {Min(S)}, n - 1)

\* get_pending_files: pending records, oldest created first, at most limit;
\* the empty list when the select raises
get_pending_files(q, limit, storeOk) ==
  IF storeOk
  THEN LET ids == FirstN({i \in 1..Len(q) : q[i].status = "pending"}, limit)
       IN [j \in 1..Len(ids) |-> q[ids[j]]]
  ELSE <<>>

\* update_file_status as process_one_by_one calls it: the record matched by
\* (hospital_name, file_name, id) gets the status, processed_at and a
\* cleared error_message; without a match a record is inserted under the
\* given id, which the store accepts when no record holds that id;
\* exceptions are swallowed
update_file_status(q, id, file_name, provider_name, status, storeOk) ==
  IF storeOk /\ id \in 1..Len(q)
       /\ q[id].hospital_name = provider_name /\ q[id].file_name = file_name
  THEN UpdateRecord(q, id,
         [q[id] EXCEPT !.status = status,
                       !.processed_at = IF status # "processing" THEN Stamp ELSE None,
                       !.error_message = None])
  ELSE IF storeOk /\ id = Len(q) + 1
  THEN Append(q, [id |-> id,
                  hospital_name |-> provider_name,
                  file_name |-> file_name,
                  file_hash |-> None,
                  status |-> status,
                  source_provider_uuid |-> None,
                  retry_count |-> 0,
                  error_message |-> None,
                  processed_at |-> IF status # "processing" THEN Stamp ELSE None])
  ELSE q

\* ------------------------------------------------------------------------
\* The files the providers drop and what parsing them yields
\* ------------------------------------------------------------------------

\* Clinic A, with every provider field filled in
RowA(sn, sc, cat, ins, plan, std, neg, net) ==
  Row(<<"Clinic A">>, <<"Austin">>, <<"TX">>, <<"73301">>, sn, sc, cat, ins, plan, std, neg, net)

\* Clinic B, whose extract leaves the State column blank
RowB(sn, sc, cat, ins, plan, std, neg, net) ==
  Row(<<"Clinic B">>, <<"Boston">>, None, <<"02108">>, sn, sc, cat, ins, plan, std, neg, net)

RowA1 == RowA(<<"Xray">>, <<"100">>, <<"Imaging">>, None, None, <<"10">>, <<"N/A">>, <<"true">>)

RowA2 == RowA(<<"MRI">>, <<"200">>, <<"Imaging">>, <<"Aetna">>, <<"Gold">>, <<"10.50">>, <<"10">>, None)

\* a row without provider name: rejected by process_row
RowBad ==
  Row(None, <<"Austin">>, <<"TX">>, <<"73301">>, <<"Xray">>, <<"100">>, <<"Imaging">>,
      None, None, <<"10">>, None, None)

RowB1 == RowB(<<"Xray">>, <<"100">>, <<"Imaging">>, None, None, <<"10">>, None, <<"false">>)

RowB2 == RowB(<<"MRI">>, <<"200">>, <<"Imaging">>, None, None, <<"1e2">>, None, None)

\* what parse_files makes of each file content: rows, or an exception
Contents ==
  << [kind |-> "rows", rows |-> <<RowA1, RowA2>>],
     [kind |-> "rows", rows |-> <<RowA1>>],
     [kind |-> "rows", rows |-> <<RowA1, RowBad, RowA2>>],
     [kind |-> "parse_error", rows |-> <<>>],
     [kind |-> "rows", rows |-> <<RowB1, RowB2>>],
     [kind |-> "rows", rows |-> <<RowB1>>],
     [kind |-> "rows", rows |-> <<>>],
     [kind |-> "rows", rows |-> <<RowBad>>] >>

\* the active ftp_sources and the one file each of them holds
Sources ==
  << [uuid |-> "src-a", provider_name |-> "ClinicA", file |-> "a.csv", contents |-> {1, 2, 3, 4}],
     [uuid |-> "src-b", provider_name |-> "ClinicB", file |-> "b.csv", contents |-> {5, 6}] >>

SourceIds == 1..Len(Sources)

\* FTPProcessor.batch_size
BatchSize == 10

\* ------------------------------------------------------------------------
\* Bounds
\* ------------------------------------------------------------------------

\* number of times the providers write, replace or remove a file
MaxEdits == 2

\* number of store calls that may raise in one behaviour
MaxFaults == 1

\* where the per-record attempt counters stop counting
CountCap == 3

\* ------------------------------------------------------------------------
\* data/processor/ftp_processor.py : FTPProcessor
\* ------------------------------------------------------------------------

\* the rows process_row rejects when no lookup raises: a provider or service
\* key field is missing
MissingKeyField(row_dict) ==
  \/ \E i \in 1..Len(provider_key_fields) : ~Truthy(row_dict[provider_key_fields[i]])
  \/ \E i \in 1..Len(service_key_fields) : ~Truthy(row_dict[service_key_fields[i]])

\* a variant of RowLoop that gives up the file's remaining rows at the first
\* row process_row rejects
RECURSIVE RowLoopStoppingAtFailure(_, _, _, _)
RowLoopStoppingAtFailure(acc, db, parsed_data, lookupOk) ==
  IF parsed_data = <<>> THEN acc
  ELSE LET r == process_row(acc.dp, db, Head(parsed_data), lookupOk)
       IN IF r.success
          THEN RowLoopStoppingAtFailure(
                 [dp |-> r.dp,
                  rows_processed |-> acc.rows_processed + 1,
                  rows_successful |-> acc.rows_successful + 1,
                  rows_failed |-> acc.rows_failed],
                 db, Tail(parsed_data), lookupOk)
          ELSE [dp |-> r.dp,
                rows_processed |-> acc.rows_processed + 1,
                rows_successful |-> acc.rows_successful,
                rows_failed |-> acc.rows_failed + 1]

\* the row loop of process_one_by_one: every row goes through process_row,
\* a failure only moves a counter
RECURSIVE RowLoop(_, _, _, _)
RowLoop(acc, db, parsed_data, lookupOk) ==
  IF parsed_data = <<>> THEN acc
  ELSE LET r == process_row(acc.dp, db, Head(parsed_data), lookupOk)
       IN RowLoop([dp |-> r.dp,
                   rows_processed |-> acc.rows_processed + 1,
                   rows_successful |-> acc.rows_successful + (IF r.success THEN 1 ELSE 0),
                   rows_failed |-> acc.rows_failed + (IF r.success THEN 0 ELSE 1)],
                  db, Tail(parsed_data), lookupOk)

process_one_by_one(dp, db, parsed_data, lookupOk) ==
  RowLoop([dp |-> dp, rows_processed |-> 0, rows_successful |-> 0, rows_failed |-> 0],
          db, parsed_data, lookupOk)

\* ------------------------------------------------------------------------
\* State
\* ------------------------------------------------------------------------

VARIABLES
  disk,      \* source index -> content of the source's file, NoFile when absent
  queue,     \* table processed_ftp_files
  db,        \* the six entity and relationship tables
  dp,        \* the DataProcessor of the FTPProcessor: caches and staging
  pc,        \* where the orchestrator's cycle stands
  scanTodo,  \* the files the scanner has still to enqueue in this cycle
  run,       \* the batch run: remaining tasks and the file in progress
  cfg,       \* DELETE_AFTER_PROCESS, UPLOAD_TO_SUPABASE, change_detection_enabled,
             \* and how the store's service_pricing index treats nulls
  faulty,    \* whether store calls may raise in this behaviour
  faults,    \* store calls that have raised so far
  edits,     \* file writes and removals so far
  attempts,  \* per queue record: times marked processing since its file's
             \* bytes last changed, and whether the record was re-queued
             \* with a new hash and not yet finished
  obs        \* outcome of the last enqueue, reconciliation and finished file

vars == <<disk, queue, db, dp, pc, scanTodo, run, cfg, faulty, faults, edits, attempts, obs>>

\* the configurations under which the orchestrator builds its FTPProcessor,
\* over a store whose unique index on service_pricing keeps null
\* insurance_ids distinct, as a unique index does unless declared otherwise
Configs ==
  {[DELETE_AFTER_PROCESS |-> FALSE, UPLOAD_TO_SUPABASE |-> TRUE,
    change_detection_enabled |-> TRUE, pricing_nulls_distinct |-> TRUE],
   [DELETE_AFTER_PROCESS |-> TRUE, UPLOAD_TO_SUPABASE |-> FALSE,
    change_detection_enabled |-> TRUE, pricing_nulls_distinct |-> TRUE]}

NoRun ==
  [tasks |-> <<>>, parsed |-> FALSE, df |-> <<>>, status |-> "none",
   error |-> None, rows_processed |-> 0, rows_successful |-> 0, rows_failed |-> 0,
   ps_before |-> {}, skipped |-> 0]

NoObs ==
  [enq |-> [src |-> 0, result |-> FALSE, ok |-> TRUE, prior |-> "none"],
   recon |-> [ran |-> FALSE, success |-> FALSE, found |-> FALSE, provider_id |-> NoId,
              stale |-> {}, relationships |-> 0, clean |-> TRUE,
              fault |-> [selectOk |-> TRUE, psFail |-> {}, prFail |-> {}]],
   done |-> [file_id |-> 0, status |-> "none", total_rows |-> 0,
             rows_successful |-> 0, rows_failed |-> 0, changed |-> FALSE],
   batch |-> [limit |-> 0, listed |-> <<>>, present |-> {}, absent |-> {},
              started |-> <<>>, raised |-> FALSE]]

InitCommon ==
  /\ disk = [i \in SourceIds |-> NoFile]
  /\ queue = <<>>
  /\ db = EmptyDb
  /\ dp = EmptyDp
  /\ pc = "idle"
  /\ scanTodo = <<>>
  /\ run = NoRun
  /\ cfg \in Configs
  /\ faults = 0
  /\ edits = 0
  /\ attempts = <<>>
  /\ obs = NoObs

\* a store that answers every call
Init == InitCommon /\ faulty = FALSE

\* a store whose calls may raise
InitF == InitCommon /\ faulty = TRUE

\* the outcomes a store call can have here: it may raise while faults remain
FaultOk == IF faulty /\ faults < MaxFaults THEN BOOLEAN ELSE {TRUE}

Bump(ok) == IF ok THEN faults ELSE faults + 1

Sat(n) == IF n < CountCap THEN n + 1 ELSE CountCap

\* the queue positions holding the file of a source
RecordsOf(q, src) ==
  {i \in 1..Len(q) : /\ q[i].hospital_name = Sources[src].provider_name
                     /\ q[i].file_name = Sources[src].file}

\* the source a queue record or task belongs to
SourceOf(rec) ==
  CHOOSE i \in SourceIds : /\ Sources[i].provider_name = rec.hospital_name
                           /\ Sources[i].file = rec.file_name

\* ------------------------------------------------------------------------
\* The providers' side: files appear, change and disappear between cycles
\* ------------------------------------------------------------------------

\* the providers are seen to act between two cycles and between a cycle's
\* scan and its batch run
EditPoint == pc = "idle" \/ (pc = "scan" /\ scanTodo = <<>>)

WriteFile(src, c) ==
  /\ EditPoint
  /\ edits < MaxEdits
  /\ c \in Sources[src].contents
  /\ c # disk[src]
  /\ disk' = [disk EXCEPT ![src] = c]
  /\ edits' = edits + 1
  /\ attempts' = [i \in 1..Len(attempts) |->
                    IF i \in RecordsOf(queue, src)
                    THEN [attempts[i] EXCEPT !.marked = 0] ELSE attempts[i]]
  /\ UNCHANGED <<queue, db, dp, pc, scanTodo, run, cfg, faulty, faults, obs>>

RemoveFile(src) ==
  /\ EditPoint
  /\ edits < MaxEdits
  /\ disk[src] # NoFile
  /\ disk' = [disk EXCEPT ![src] = NoFile]
  /\ edits' = edits + 1
  /\ UNCHANGED <<queue, db, dp, pc, scanTodo, run, cfg, faulty, faults, attempts, obs>>

\* ------------------------------------------------------------------------
\* orchestrator.py : HealthcareFTPOrchestrator.run, services/ftp_scanner.py
\* ------------------------------------------------------------------------

\* scan_files / _get_files: the files found under the active sources
StartCycle ==
  /\ pc = "idle"
  /\ pc' = "scan"
  /\ scanTodo' = SelectSeq([i \in SourceIds |-> i], LAMBDA i : disk[i] # NoFile)
  /\ obs' = [obs EXCEPT !.batch = NoObs.batch]
  /\ UNCHANGED <<disk, queue, db, dp, run, cfg, faulty, faults, edits, attempts>>

\* _queue_files: one enqueue_file per file found
QueueFile ==
  /\ pc = "scan"
  /\ scanTodo # <<>>
  /\ \E ok \in FaultOk :
       LET src == Head(scanTodo)
           r == enqueue_file(queue, Sources[src].uuid, Sources[src].provider_name,
                             Sources[src].file, calculate_sha256(disk[src]), ok)
       IN /\ queue' = r.queue
          /\ faults' = Bump(ok)
          /\ obs' = [obs EXCEPT !.enq =
                       [src |-> src, result |-> r.result, ok |-> ok,
                        prior |-> IF RecordsOf(queue, src) = {} THEN "none"
                                  ELSE queue[Min(RecordsOf(queue, src))].status]]
          /\ attempts' =
               [i \in 1..Len(r.queue) |->
                  IF i > Len(queue)
                  THEN [marked |-> 0, changed |-> FALSE]
                  ELSE IF r.queue[i].file_hash # queue[i].file_hash
                  THEN [marked |-> 0, changed |-> TRUE]
                  ELSE attempts[i]]
  /\ scanTodo' = Tail(scanTodo)
  /\ UNCHANGED <<disk, db, dp, pc, run, cfg, faulty, edits>>

\* a variant of TasksOf that makes a task of every pending record
TasksOfAll(pending_files, files) == pending_files

\* process_pending_files, the task loop: a record whose file does not exist
\* is passed over (continue), the others become tasks in the listed order
TasksOf(pending_files, files) ==
  SelectSeq(pending_files, LAMBDA f : files[SourceOf(f)] # NoFile)

\* process_files and the head of process_pending_files for a processor built
\* with the given batch_size: nothing to do when no record is pending;
\* otherwise the pending records (oldest first, at most batch_size) whose
\* file exists become the tasks, the others count as skipped.  A select that
\* raises yields an empty result: get_pending_files logs the exception and
\* returns [], so the run ends as it does on an empty queue and the except
\* branch of process_pending_files (log and raise) is not entered.
BeginBatchWith(batch_size) ==
  /\ pc = "scan"
  /\ scanTodo = <<>>
  /\ \E ok \in FaultOk :
       LET pending_files == IF PendingCount(queue, ok) = 0 THEN <<>>
                            ELSE get_pending_files(queue, batch_size, ok)
           tasks == TasksOf(pending_files, disk)
       IN /\ faults' = Bump(ok)
          /\ run' = [NoRun EXCEPT !.tasks = tasks,
                                  !.skipped = Len(pending_files) - Len(tasks)]
          /\ obs' = [obs EXCEPT !.batch =
                       [limit |-> batch_size,
                        listed |-> [j \in 1..Len(pending_files) |-> pending_files[j].id],
                        present |-> {tasks[j].id : j \in 1..Len(tasks)},
                        absent |-> {pending_files[j].id :
                                      j \in {k \in 1..Len(pending_files) :
                                                disk[SourceOf(pending_files[k])] = NoFile}},
                        started |-> <<>>,
                        raised |-> FALSE]]
          /\ pc' = IF tasks = <<>> THEN "idle" ELSE "mark"
  /\ UNCHANGED <<disk, queue, db, dp, scanTodo, cfg, faulty, edits, attempts>>

\* the orchestrator builds its FTPProcessor with the default batch_size
BeginBatch == BeginBatchWith(BatchSize)

\* a variant of StepAfter that runs the reconciler after the flush
StepAfterReconcileLast(step, change_detection_enabled) ==
  CASE step = "parse" -> "rows"
    [] step = "rows" -> "flush"
    [] step = "flush" -> IF change_detection_enabled THEN "reconcile" ELSE "terminal"
    [] step = "reconcile" -> "terminal"

\* process_single_file and process_one_by_one, the order of the steps of a
\* file that parsed: change detection (if enabled), the row loop, the flush
StepAfter(step, change_detection_enabled) ==
  CASE step = "parse" -> IF change_detection_enabled THEN "reconcile" ELSE "rows"
    [] step = "reconcile" -> "rows"
    [] step = "rows" -> "flush"
    [] step = "flush" -> "terminal"

\* a variant of StepAfterChangeDetection that ends the file when the
\* reconciliation did not succeed
StepAfterChangeDetectionOrFail(success, change_detection_enabled) ==
  IF success THEN StepAfter("reconcile", change_detection_enabled) ELSE "terminal"

\* process_single_file: change_result["success"] is looked at only to
\* choose the message, and an exception of the call is logged ("Continuing
\* with data processing despite change detection failure")
StepAfterChangeDetection(success, change_detection_enabled) ==
  StepAfter("reconcile", change_detection_enabled)

\* process_single_file, first step: mark_as_processing; a failure to mark is
\* logged and the file is processed all the same
MarkProcessing ==
  /\ pc = "mark"
  /\ \E ok \in FaultOk :
       LET task == Head(run.tasks)
           r == mark_as_processing(queue, task.id, ok)
       IN /\ queue' = r.queue
          /\ faults' = Bump(ok)
          /\ attempts' = IF r.result
                         THEN [attempts EXCEPT ![task.id].marked = Sat(@)]
                         ELSE attempts
          /\ obs' = [obs EXCEPT !.batch.started = Append(@, task.id)]
  /\ run' = [run EXCEPT !.ps_before = db.provider_services]
  /\ pc' = "parse"
  /\ UNCHANGED <<disk, db, dp, scanTodo, cfg, faulty, edits>>

\* process_single_file: the legacy already-processed check (only without
\* change detection), then parse_files; an exception or an empty result
\* makes the file fail
ParseFile ==
  /\ pc = "parse"
  /\ LET task == Head(run.tasks)
         content == disk[SourceOf(task)]
     IN IF /\ ~cfg.change_detection_enabled
           /\ is_file_already_processed(queue, task.hospital_name, task.file_name, TRUE)
        THEN /\ run' = [run EXCEPT !.status = "skipped", !.skipped = @ + 1]
             /\ pc' = "terminal"
        ELSE IF content = NoFile \/ Contents[content].kind # "rows"
                  \/ Contents[content].rows = <<>>
        THEN /\ run' = [run EXCEPT !.status = "failed",
                                   !.error = ErrorMessage("File parsing failed", 600)]
             /\ pc' = "terminal"
        ELSE /\ run' = [run EXCEPT !.parsed = TRUE, !.df = Contents[content].rows]
             /\ pc' = StepAfter("parse", cfg.change_detection_enabled)
  /\ UNCHANGED <<disk, queue, db, dp, scanTodo, cfg, faulty, faults, edits, attempts, obs>>

\* the faults one reconciliation can meet: none, a select that raises, or
\* deletes that raise for some stale ids
ReconFaults(stale) ==
  {[selectOk |-> TRUE, psFail |-> {}, prFail |-> {}]} \cup
  (IF faulty /\ faults < MaxFaults
   THEN {[selectOk |-> FALSE, psFail |-> {}, prFail |-> {}]}
        \cup {[selectOk |-> TRUE, psFail |-> f, prFail |-> {}] : f \in SUBSET stale \ {{}}}
        \cup {[selectOk |-> TRUE, psFail |-> {}, prFail |-> f] : f \in SUBSET stale \ {{}}}
   ELSE {})

CleanFault(f) == f.selectOk /\ f.psFail = {} /\ f.prFail = {}

\* process_single_file: change detection before any row is processed; its
\* outcome is only reported
Reconcile ==
  /\ pc = "reconcile"
  /\ LET info == ProviderInfo(run.df)
         plain == detect_and_delete_missing_records_for_provider(
                     db, run.df, info, TRUE, {}, {})
     IN \E f \in ReconFaults(plain.stale) :
          LET r == detect_and_delete_missing_records_for_provider(
                     db, run.df, info, f.selectOk, f.psFail, f.prFail)
          IN /\ db' = r.db
             /\ faults' = Bump(CleanFault(f))
             /\ obs' = [obs EXCEPT !.recon =
                          [ran |-> TRUE, success |-> r.success, found |-> r.found,
                           provider_id |-> r.provider_id, stale |-> r.stale,
                           relationships |-> r.relationships, clean |-> CleanFault(f),
                           fault |-> f]]
  /\ pc' = StepAfterChangeDetection(obs'.recon.success, cfg.change_detection_enabled)
  /\ UNCHANGED <<disk, queue, dp, scanTodo, run, cfg, faulty, edits, attempts>>

\* the lookups of one file's rows: all answered, or one table's select raises
LookupChoices ==
  {AllLookupsOk} \cup
  (IF faulty /\ faults < MaxFaults
   THEN {[AllLookupsOk EXCEPT ![t] = FALSE] : t \in DOMAIN AllLookupsOk}
   ELSE {})

\* process_one_by_one, the row loop
ProcessRows ==
  /\ pc = "rows"
  /\ \E lookupOk \in LookupChoices :
       LET r == process_one_by_one(dp, db, run.df, lookupOk)
       IN /\ dp' = r.dp
          /\ run' = [run EXCEPT !.rows_processed = r.rows_processed,
                                !.rows_successful = r.rows_successful,
                                !.rows_failed = r.rows_failed]
          /\ faults' = Bump(lookupOk = AllLookupsOk)
  /\ pc' = StepAfter("rows", cfg.change_detection_enabled)
  /\ UNCHANGED <<disk, queue, db, scanTodo, cfg, faulty, edits, attempts, obs>>

\* the bulk upserts of one flush: all accepted, or one of them raises
UpsertChoices ==
  {AllUpsertsOk} \cup
  (IF faulty /\ faults < MaxFaults
   THEN {[AllUpsertsOk EXCEPT ![t] = FALSE] : t \in UpsertTables}
   ELSE {})

\* process_one_by_one, after the rows: do_database_insertion, then (with
\* UPLOAD_TO_SUPABASE) the upload and update_file_status(completed); the
\* function reports success whatever the rows and the upserts did
FlushFile ==
  /\ pc = "flush"
  /\ \E upsertOk \in UpsertChoices :
       LET task == Head(run.tasks)
           r == do_database_insertion(dp, db, upsertOk, cfg.pricing_nulls_distinct)
       IN /\ db' = r.db
          /\ faults' = Bump(upsertOk = AllUpsertsOk)
          /\ queue' = IF cfg.UPLOAD_TO_SUPABASE
                      THEN update_file_status(queue, task.id, task.file_name,
                                              task.hospital_name, "completed", TRUE)
                      ELSE queue
  /\ run' = [run EXCEPT !.status = "success"]
  /\ pc' = StepAfter("flush", cfg.change_detection_enabled)
  /\ UNCHANGED <<disk, dp, scanTodo, cfg, faulty, edits, attempts, obs>>

\* a variant of DeletesFile that does not look at what mark_as_completed
\* returned
DeletesFileUnmarked(status, marked, delete_after_process) ==
  status = "success" /\ delete_after_process

\* process_pending_files: os.remove is reached in the success branch, when
\* mark_as_completed returned True and DELETE_AFTER_PROCESS is set
DeletesFile(status, marked, delete_after_process) ==
  status = "success" /\ marked /\ delete_after_process

\* process_pending_files, after process_single_file returned: success is
\* written as completed (and the file deleted when configured and the write
\* went through), anything else as failed; then clear_caches and the next task
FinishFile ==
  /\ pc = "terminal"
  /\ \E ok \in FaultOk :
       LET task == Head(run.tasks)
           r == IF run.status = "success"
                THEN mark_as_completed(queue, task.id, ok)
                ELSE mark_as_failed(queue, task.id,
                                    IF run.error = None THEN ErrorMessage("Unknown error", 13)
                                    ELSE run.error, ok)
       IN /\ queue' = r.queue
          /\ faults' = Bump(ok)
          /\ disk' = IF DeletesFile(run.status, r.result, cfg.DELETE_AFTER_PROCESS)
                     THEN [disk EXCEPT ![SourceOf(task)] = NoFile]
                     ELSE disk
          /\ attempts' = [attempts EXCEPT ![task.id].changed = FALSE]
          /\ obs' = [obs EXCEPT !.done =
                       [file_id |-> task.id, status |-> run.status,
                        total_rows |-> Len(run.df),
                        rows_successful |-> run.rows_successful,
                        rows_failed |-> run.rows_failed,
                        changed |-> attempts[task.id].changed]]
          /\ run' = [NoRun EXCEPT !.tasks = Tail(run.tasks), !.skipped = run.skipped]
          /\ pc' = IF Tail(run.tasks) = <<>> THEN "idle" ELSE "mark"
  /\ dp' = clear_caches(dp)
  /\ UNCHANGED <<db, scanTodo, cfg, faulty, edits>>

Next ==
  \/ \E src \in SourceIds, c \in 1..Len(Contents) : WriteFile(src, c)
  \/ \E src \in SourceIds : RemoveFile(src)
  \/ StartCycle
  \/ QueueFile
  \/ BeginBatch
  \/ MarkProcessing
  \/ ParseFile
  \/ Reconcile
  \/ ProcessRows
  \/ FlushFile
  \/ FinishFile

\* the pipeline over a store that answers every call
Spec == Init /\ [][Next]_vars

\* the pipeline over a store whose calls may raise
SpecF == InitF /\ [][Next]_vars

\* the pipeline over a store whose calls may raise, with cycles that keep
\* being run and whose steps are carried through: weak fairness of every
\* step of the cycle.  The row loop is enabled exactly when pc = "rows" and
\* always leaves it, so its weak fairness is written as []<>(pc # "rows").
\* The providers are under no obligation to touch their files.
SpecFLive ==
  /\ InitF
  /\ [][Next]_vars
  /\ WF_vars(StartCycle)
  /\ WF_vars(QueueFile)
  /\ WF_vars(BeginBatch)
  /\ WF_vars(MarkProcessing)
  /\ WF_vars(ParseFile)
  /\ WF_vars(Reconcile)
  /\ []<>(pc # "rows")
  /\ WF_vars(FlushFile)
  /\ WF_vars(FinishFile)

TypeOK ==
  /\ pc \in {"idle", "scan", "mark", "parse", "reconcile", "rows", "flush", "terminal"}
  /\ Len(attempts) = Len(queue)
  /\ \A i \in 1..Len(queue) : queue[i].status \in {"pending", "processing", "completed", "failed"}

\* ------------------------------------------------------------------------
\* Properties of the queue
\* ------------------------------------------------------------------------

\* the step in which _queue_files calls enqueue_file for the next file found
EnqueueStep == pc = "scan" /\ scanTodo # <<>> /\ scanTodo' = Tail(scanTodo)

\* the hash enqueue_file is about to compute
CurrentHash == calculate_sha256(disk[Head(scanTodo)])

\* C1: when enqueue_file finds a record of the file's (provider, file name)
\* whose stored hash is the file's current hash and whose status is
\* completed, pending or processing, it returns False and no field of any
\* queue record changes.
C1_EnqueueUnchangedIsNoOp ==
  [][(/\ EnqueueStep
      /\ \E i \in RecordsOf(queue, Head(scanTodo)) :
            /\ queue[i].file_hash = CurrentHash
            /\ queue[i].status \in {"completed", "pending", "processing"})
     => (queue' = queue /\ obs'.enq.result = FALSE)]_vars

\* an enqueue of unchanged content has just been skipped on a record that
\* says processing
C1_Witness ==
  /\ pc = "scan"
  /\ obs.enq.src # 0
  /\ obs.enq.ok
  /\ obs.enq.result = FALSE
  /\ obs.enq.prior = "processing"
  /\ \E i \in RecordsOf(queue, obs.enq.src) :
        /\ queue[i].file_hash = calculate_sha256(disk[obs.enq.src])
        /\ queue[i].status = "processing"

\* C2: while a file's bytes do not change, its queue record is marked
\* processing at most once, whatever the outcome of the first attempt.
C2_MarkedProcessingAtMostOnce ==
  \A i \in 1..Len(attempts) : attempts[i].marked <= 1

\* C3: when enqueue_file finds a record of the file's (provider, file name)
\* whose stored hash differs from the file's current hash, whatever the
\* record's status, it writes the new hash, status pending, retry_count 0
\* and no error message to that record, returns True, adds no record and
\* leaves the other records alone.
C3_EnqueueChangedUpdatesInPlace ==
  [][(/\ EnqueueStep
      /\ obs'.enq.ok
      /\ CurrentHash # None
      /\ RecordsOf(queue, Head(scanTodo)) # {}
      /\ \A i \in RecordsOf(queue, Head(scanTodo)) : queue[i].file_hash # CurrentHash)
     => (/\ obs'.enq.result = TRUE
         /\ Len(queue') = Len(queue)
         /\ \E i \in RecordsOf(queue, Head(scanTodo)) :
               /\ queue'[i].file_hash = CurrentHash
               /\ queue'[i].status = "pending"
               /\ queue'[i].retry_count = 0
               /\ queue'[i].error_message = None
               /\ queue'[i].id = queue[i].id
               /\ \A j \in 1..Len(queue) : j # i => queue'[j] = queue[j])]_vars

\* a record that said completed has just been reset by an enqueue that saw
\* a new hash
C3_Witness ==
  /\ pc = "scan"
  /\ obs.enq.src # 0
  /\ obs.enq.result = TRUE
  /\ obs.enq.prior = "completed"
  /\ \E i \in RecordsOf(queue, obs.enq.src) :
        /\ attempts[i].changed
        /\ queue[i].status = "pending"
        /\ queue[i].file_hash = calculate_sha256(disk[obs.enq.src])

\* C11: a record goes from failed to pending only in an enqueue_file call
\* that sees a hash different from the stored one; no other step of the
\* cycle, and no enqueue of the same bytes, takes a record from failed to
\* pending.
C11_FailedToPendingOnlyOnChange ==
  [][\A i \in 1..Len(queue) :
       (queue[i].status = "failed" /\ queue'[i].status = "pending")
         => (EnqueueStep /\ queue'[i].file_hash # queue[i].file_hash)]_vars

\* no two records carry the same (hospital_name, file_name)
OneRecordPerFile(q) ==
  \A i, j \in 1..Len(q) :
    (q[i].hospital_name = q[j].hospital_name /\ q[i].file_name = q[j].file_name) => i = j

\* no two records in pending or processing carry the same (hospital_name,
\* file_name, file_hash)
OneLiveRecordPerVersion(q) ==
  \A i, j \in 1..Len(q) :
    (/\ q[i].status \in {"pending", "processing"}
     /\ q[j].status \in {"pending", "processing"}
     /\ q[i].hospital_name = q[j].hospital_name
     /\ q[i].file_name = q[j].file_name
     /\ q[i].file_hash = q[j].file_hash) => i = j

\* every record is still there after the step, under the same id and name
RecordsKept(q, qn) ==
  /\ Len(qn) >= Len(q)
  /\ \A i \in 1..Len(q) : /\ qn[i].id = q[i].id
                          /\ qn[i].hospital_name = q[i].hospital_name
                          /\ qn[i].file_name = q[i].file_name

\* C12: the queue never holds two records of one (provider_name,
\* file_name), hence never two pending or processing records of one
\* (provider_name, file_name, content hash), and no step removes a record.
C12_QueueUniqueness ==
  /\ OneRecordPerFile(queue)
  /\ [][/\ OneRecordPerFile(queue')
        /\ OneLiveRecordPerVersion(queue')
        /\ RecordsKept(queue, queue')]_vars

\* the queue holds one record, that of a file that had failed, and the
\* record has just been given the hash of the file's new bytes
C12_Witness ==
  /\ pc = "scan"
  /\ Len(queue) = 1
  /\ obs.enq.src # 0
  /\ obs.enq.result = TRUE
  /\ obs.enq.prior = "failed"
  /\ attempts[1].changed
  /\ queue[1].status = "pending"

\* C14: under repeated scan and batch cycles, a queue record that says
\* processing eventually says completed or failed, also after a terminal
\* status write that did not go through; no record says processing forever.
C14_ProcessingEventuallyEnds ==
  \A i \in SourceIds :
    (Len(queue) >= i /\ queue[i].status = "processing")
      ~> (Len(queue) >= i /\ queue[i].status \in {"completed", "failed"})

\* ------------------------------------------------------------------------
\* Properties of the batch run
\* ------------------------------------------------------------------------

\* the step in which process_pending_files writes the result of the file in
\* progress
FinishStep == pc = "terminal" /\ pc' # "terminal"

\* the rows of a file that lack a provider or service key field
RejectedRows(df) == {i \in 1..Len(df) : MissingKeyField(df[i])}

\* C7: when a file parses into n >= 1 rows of which k < n are rejected by
\* process_row, every row has gone through process_row, the result counts
\* rows_successful = n - k and rows_failed = k, and the queue record is
\* written completed.
C7_RowIsolation ==
  [][(/\ FinishStep
      /\ run.parsed
      /\ Len(run.df) >= 1
      /\ Cardinality(RejectedRows(run.df)) < Len(run.df))
     => (/\ run.rows_processed = Len(run.df)
         /\ run.rows_successful = Len(run.df) - Cardinality(RejectedRows(run.df))
         /\ run.rows_failed = Cardinality(RejectedRows(run.df))
         /\ queue'[Head(run.tasks).id].status = "completed")]_vars

\* a file of three rows, the second of them rejected, has just been written
\* completed
C7_Witness ==
  /\ obs.done.file_id # 0
  /\ obs.done.total_rows = 3
  /\ obs.done.rows_failed = 1
  /\ obs.done.rows_successful = 2
  /\ obs.done.status = "success"
  /\ queue[obs.done.file_id].status = "completed"
  /\ pc \in {"idle", "mark"}

\* the (name, city, zip) identities of the providers a file's rows name
FileProviders(df) ==
  {<<df[i]["Provider Name"], df[i]["City"], df[i]["Zip Code"]>> :
     i \in {j \in 1..Len(df) :
              \A f \in 1..Len(provider_key_fields) : Truthy(df[j][provider_key_fields[f]])}}

\* the persisted ids of the providers a file's rows name
FileProviderIds(d, df) ==
  {r.provider_id : r \in {x \in d.providers :
     <<x.provider_name, x.provider_city, x.provider_zip>> \in FileProviders(df)}}

\* the persisted ids of the services whose code appears in a file's rows
FileServiceIds(d, df) ==
  {r.service_id : r \in {x \in d.services :
     \E i \in 1..Len(df) : df[i]["Service Code"] = x.service_code}}

\* the relationship and pricing rows of a store reference only providers,
\* services and insurances the store holds
Consistent(d) ==
  LET provider_ids == {r.provider_id : r \in d.providers}
      service_ids == {r.service_id : r \in d.services}
      insurance_ids == {r.insurance_id : r \in d.insurance}
  IN /\ \A t \in d.provider_services : t[1] \in provider_ids /\ t[2] \in service_ids
     /\ \A t \in d.service_insurance : t[1] \in service_ids /\ t[2] \in insurance_ids
     /\ \A r \in d.service_pricing :
           /\ r.provider_id \in provider_ids
           /\ r.service_id \in service_ids
           /\ (r.insurance_id # NoId => r.insurance_id \in insurance_ids)

C9_EndToEndReconciliation ==
  [][(/\ FinishStep
      /\ attempts[Head(run.tasks).id].changed
      /\ run.status = "success"
      /\ queue'[Head(run.tasks).id].status = "completed"
      /\ Cardinality(FileProviders(run.df)) = 1)
     => (/\ \A t \in db.provider_services :
               t[1] \in FileProviderIds(db, run.df) => t[2] \in FileServiceIds(db, run.df)
         /\ {t \in db.provider_services : t[1] \notin FileProviderIds(db, run.df)}
              = {t \in run.ps_before : t[1] \notin FileProviderIds(db, run.df)})]_vars

\* C10: every status a queue record takes follows pending -> processing ->
\* {completed, failed}: it becomes processing only from pending, and
\* completed or failed only from processing.
C10_QueueStateMachine ==
  [][\A i \in 1..Len(queue) :
       /\ (queue'[i].status = "processing" /\ queue[i].status # "processing")
            => queue[i].status = "pending"
       /\ (queue'[i].status \in {"completed", "failed"}
             /\ queue'[i].status # queue[i].status)
            => queue[i].status = "processing"]_vars

\* a step that removes a provider_services row or a service_pricing row
DeletionStep ==
  \/ db.provider_services \ db'.provider_services # {}
  \/ {r.pricing_id : r \in db.service_pricing}
       \ {r.pricing_id : r \in db'.service_pricing} # {}

\* C19: with change detection enabled, every step of a file that deletes
\* relationship or pricing rows is the reconciler's, taken after the file
\* was parsed and before any of its rows is resolved or anything of it is
\* upserted: nothing is staged, no row is counted, and the relationships the
\* reconciler meets are those the store held when the file was started.
C19_ReconcileBeforeIngestion ==
  [][DeletionStep
     => (/\ cfg.change_detection_enabled
         /\ pc = "reconcile"
         /\ run.parsed
         /\ run.rows_processed = 0
         /\ run.status = "none"
         /\ dp = EmptyDp
         /\ db.provider_services = run.ps_before)]_vars

\* the reconciler has just deleted relationships of the file being processed
C19_Witness ==
  /\ pc = "rows"
  /\ run.parsed
  /\ obs.recon.ran
  /\ obs.recon.stale # {}
  /\ run.ps_before \ db.provider_services # {}

\* ------------------------------------------------------------------------
\* The reconciler on its own, over stores as earlier ingestions leave them
\* ------------------------------------------------------------------------

\* two providers, the second stored without a state
ReconProviders ==
  {[provider_id |-> 1, provider_name |-> <<"Clinic A">>, provider_city |-> <<"Austin">>,
    provider_state |-> <<"TX">>, provider_zip |-> <<"73301">>],
   [provider_id |-> 2, provider_name |-> <<"Clinic B">>, provider_city |-> <<"Boston">>,
    provider_state |-> None, provider_zip |-> <<"02108">>]}

\* the service catalog: a service of category Imaging, one stored without a
\* category, one of category Lab_Tests, and one the store does not hold
ReconCatalog ==
  << [service_name |-> <<"Xray">>, service_code |-> <<"100">>, service_category |-> <<"Imaging">>],
     [service_name |-> <<"Panel">>, service_code |-> <<"300">>, service_category |-> None],
     [service_name |-> <<"Culture">>, service_code |-> <<"400">>,
      service_category |-> <<"Lab", "_", "Tests">>],
     [service_name |-> <<"Echo">>, service_code |-> <<"500">>, service_category |-> <<"Cardio">>] >>

\* the services the store holds
ReconPersisted == 1..3

ReconServices ==
  {[service_id |-> i, service_name |-> ReconCatalog[i].service_name,
    service_code |-> ReconCatalog[i].service_code,
    service_category |-> ReconCatalog[i].service_category] : i \in ReconPersisted}

\* a store with the given provider-service relationships, one pricing row
\* without insurance for each of them, and one insured pricing row
ReconStore(ps) ==
  [providers |-> ReconProviders,
   services |-> ReconServices,
   insurance |-> {[insurance_id |-> 1, insurance_name |-> <<"Aetna">>,
                   insurance_plan |-> <<"Gold">>]},
   provider_services |-> ps,
   service_insurance |-> {<<1, 1>>},
   service_pricing |->
     {StoredPricing(10 * t[1] + t[2],
                    PricingRecord(<<t[1], t[2], NoId, None, None, <<"10.0">>>>)) : t \in ps}
       \cup {StoredPricing(1, PricingRecord(<<2, 1, 1, <<"10.0">>, <<"TRUE">>, <<"10.5">>>>))}]

\* the providers a batch can be for: the two persisted ones and an unknown one
ReconBatchProviders ==
  << [name |-> <<"Clinic A">>, city |-> <<"Austin">>, state |-> <<"TX">>, zip |-> <<"73301">>],
     [name |-> <<"Clinic B">>, city |-> <<"Boston">>, state |-> None, zip |-> <<"02108">>],
     [name |-> <<"Clinic C">>, city |-> <<"Austin">>, state |-> <<"TX">>, zip |-> <<"73301">>] >>

\* the batch of one provider listing the given services, in catalog order
ReconBatch(p, S) ==
  LET order == FirstN(S, Cardinality(S))
      who == ReconBatchProviders[p]
  IN [i \in 1..Len(order) |->
        Row(who.name, who.city, who.state, who.zip,
            ReconCatalog[order[i]].service_name, ReconCatalog[order[i]].service_code,
            ReconCatalog[order[i]].service_category, None, None, <<"10">>, None, None)]

InitRecon ==
  /\ disk = [i \in SourceIds |-> NoFile]
  /\ queue = <<>>
  /\ db \in {ReconStore(ps) : ps \in SUBSET ({1, 2} \X ReconPersisted)}
  /\ dp = EmptyDp
  /\ pc = "idle"
  /\ scanTodo = <<>>
  /\ run = NoRun
  /\ cfg \in {c \in Configs : c.UPLOAD_TO_SUPABASE}
  /\ faulty \in BOOLEAN
  /\ faults = 0
  /\ edits = 0
  /\ attempts = <<>>
  /\ obs = NoObs

\* a parsed batch arrives at the change detection of process_single_file
ReconLoad(p, S) ==
  /\ pc = "idle"
  /\ S # {}
  /\ run' = [NoRun EXCEPT !.parsed = TRUE, !.df = ReconBatch(p, S)]
  /\ obs' = NoObs
  /\ pc' = "reconcile"
  /\ UNCHANGED <<disk, queue, db, dp, scanTodo, cfg, faulty, faults, edits, attempts>>

NextRecon ==
  \/ \E p \in 1..Len(ReconBatchProviders), S \in SUBSET (1..Len(ReconCatalog)) : ReconLoad(p, S)
  \/ Reconcile

SpecRecon == InitRecon /\ [][NextRecon]_vars

\* the step in which the reconciler runs
ReconcileStep == pc = "reconcile" /\ pc' = "rows"

\* the provider_services rows of a provider
RelationshipsOf(d, provider_id) == {t \in d.provider_services : t[1] = provider_id}

\* the persisted services that a row of the batch names: same code and same
\* category, a blank cell standing for a category that is not stored
ServicesInBatch(d, df) ==
  {r.service_id : r \in {x \in d.services :
     \E i \in 1..Len(df) : /\ df[i]["Service Code"] = x.service_code
                           /\ df[i]["Service Category"] = x.service_category}}

\* C4: after the reconciler ran for provider P without store errors, the
\* provider_services rows of P that were deleted are exactly those whose
\* service id is persisted for P and is not among the ids the batch's
\* service keys resolve to; and every row of P whose service is present in
\* the batch remains.
C4_DeletesExactlyStale ==
  [][(ReconcileStep /\ obs'.recon.clean /\ obs'.recon.found)
     => LET P == obs'.recon.provider_id
            persisted == {t[2] : t \in RelationshipsOf(db, P)}
        IN /\ RelationshipsOf(db, P) \ RelationshipsOf(db', P)
                = {t \in RelationshipsOf(db, P) :
                     t[2] \in persisted \ current_service_ids(db, run.df)}
           /\ \A t \in RelationshipsOf(db, P) :
                t[2] \in ServicesInBatch(db, run.df) => t \in db'.provider_services]_vars

\* C5: a run of the reconciler for provider P changes no row of providers,
\* services, insurance or service_insurance, changes no provider_services or
\* service_pricing row of another provider, and adds no row anywhere (a
\* batch service unknown to the store is not created).
C5_ScopedToOneProvider ==
  [][ReconcileStep
     => LET P == obs'.recon.provider_id
        IN /\ db'.providers = db.providers
           /\ db'.services = db.services
           /\ db'.insurance = db.insurance
           /\ db'.service_insurance = db.service_insurance
           /\ db'.provider_services \subseteq db.provider_services
           /\ db'.service_pricing \subseteq db.service_pricing
           /\ {t \in db'.provider_services : t[1] # P} = {t \in db.provider_services : t[1] # P}
           /\ {r \in db'.service_pricing : r.provider_id # P}
                = {r \in db.service_pricing : r.provider_id # P}
           /\ (obs'.recon.found =>
                 \E r \in db.providers :
                   /\ r.provider_id = P
                   /\ Str(r.provider_name) = Str(run.df[1]["Provider Name"])
                   /\ Str(r.provider_city) = Str(run.df[1]["City"])
                   /\ Str(r.provider_zip) = Str(run.df[1]["Zip Code"]))]_vars

\* the reconciler has just deleted relationships of one provider while
\* another provider holds a relationship to one of the same services, and
\* the batch named a service the store does not hold
C5_Witness ==
  /\ pc = "rows"
  /\ obs.recon.ran
  /\ obs.recon.found
  /\ obs.recon.relationships > 0
  /\ \E t \in db.provider_services :
       t[1] # obs.recon.provider_id /\ t[2] \in obs.recon.stale
  /\ \E i \in 1..Len(run.df) :
       \A r \in db.services : r.service_code # run.df[i]["Service Code"]

\* the service_pricing rows of a provider
PricingOf(d, provider_id) == {r \in d.service_pricing : r.provider_id = provider_id}

NoProviderFor(d, df) ==
  ~\E r \in d.providers :
      /\ r.provider_name = ProviderInfo(df).name
      /\ r.provider_city = ProviderInfo(df).city
      /\ r.provider_state = ProviderInfo(df).state
      /\ r.provider_zip = ProviderInfo(df).zip_code

\* C21: when no persisted provider matches the batch's provider on name,
\* city, state and zip, the reconciler changes no table, reports zero
\* deleted relationships and an empty stale set, and reports success
\* whenever its select was answered.
C21_FirstTimeIngestion ==
  [][(ReconcileStep /\ NoProviderFor(db, run.df))
     => (/\ db' = db
         /\ queue' = queue
         /\ ~obs'.recon.found
         /\ obs'.recon.relationships = 0
         /\ obs'.recon.stale = {}
         /\ (obs'.recon.clean => obs'.recon.success))]_vars

\* the reconciler has just run for a provider the store does not hold, over
\* a store that holds relationships of other providers in the same city
C21_Witness ==
  /\ pc = "rows"
  /\ obs.recon.ran
  /\ obs.recon.clean
  /\ obs.recon.success
  /\ NoProviderFor(db, run.df)
  /\ \E r \in db.providers :
       /\ r.provider_city = ProviderInfo(run.df).city
       /\ \E t \in db.provider_services :
            t[1] = r.provider_id /\ t[2] \notin current_service_ids(db, run.df)

\* C22: when the delete for a stale service id raises, the reconciler still
\* deletes the provider_services row and the service_pricing rows of every
\* stale id whose own delete did not raise, still reports success, and the
\* relationships count it reports is the number of provider_services rows
\* it removed.
C22_DeletionFailureIsolation ==
  [][(ReconcileStep /\ obs'.recon.found)
     => LET P == obs'.recon.provider_id
            stale == obs'.recon.stale
            f == obs'.recon.fault
        IN /\ obs'.recon.success
           /\ stale = {t[2] : t \in RelationshipsOf(db, P)} \ current_service_ids(db, run.df)
           /\ \A s \in stale \ f.psFail : <<P, s>> \notin db'.provider_services
           /\ \A s \in stale \ f.prFail : \A r \in PricingOf(db', P) : r.service_id # s
           /\ obs'.recon.relationships
                = Cardinality(RelationshipsOf(db, P) \ RelationshipsOf(db', P))
           /\ obs'.recon.relationships = Cardinality(stale \ f.psFail)]_vars

\* the reconciler has just run with three stale services, the delete of one
\* of them raised and the rows of the other two are gone
C22_Witness ==
  /\ pc = "rows"
  /\ obs.recon.ran
  /\ obs.recon.found
  /\ obs.recon.success
  /\ Cardinality(obs.recon.stale) = 3
  /\ Cardinality(obs.recon.fault.psFail) = 1
  /\ obs.recon.relationships = 2
  /\ Cardinality(RelationshipsOf(db, obs.recon.provider_id)) = 1

\* ------------------------------------------------------------------------
\* The entity resolver on its own: rows of any shape, one after another,
\* with the flush and cache clear that end a file
\* ------------------------------------------------------------------------

\* total number of rows fed to process_row in one behaviour
MaxRows == 2

\* rows that differ in the entities they name
ResolverEntityRows ==
  {RowA1, RowA2, RowBad, RowB1,
   Row(<<"Clinic A">>, <<"Dallas">>, <<"TX">>, <<"75001">>, <<"Xray">>, <<"100">>,
       <<"Imaging">>, None, None, <<"10">>, None, None),
   RowA(<<"Chest Xray">>, <<"100">>, <<"Radiology">>, None, None, <<"10">>, None, None),
   RowA(<<"Xray">>, None, <<"Imaging">>, None, None, <<"10">>, None, None),
   RowA(<<"MRI">>, <<"200">>, <<"Imaging">>, <<"Aetna">>, None, <<"10">>, None, None)}

\* rows of one provider and service that differ in price and network cells
ResolverPriceRows ==
  {RowA(<<"Xray">>, <<"100">>, <<"Imaging">>, None, None, c[1], c[2], c[3]) :
     c \in {<<EmptyStr, <<"N/A">>, <<"yes">>>>,
            <<<<"nan">>, <<"NULL">>, EmptyStr>>,
            <<<<"none">>, <<"$5">>, <<"false">>>>,
            <<<<"N/A">>, <<" 20 ">>, <<"False">>>>,
            <<None, <<"NaN">>, <<"True">>>>,
            <<<<"null">>, <<"inf">>, None>>}}

ResolverRows == ResolverEntityRows \cup ResolverPriceRows

\* a store that already holds Clinic A of Austin and the service of code 100
ResolverSeed ==
  [EmptyDb EXCEPT
     !.providers = {[provider_id |-> 1, provider_name |-> <<"Clinic A">>,
                     provider_city |-> <<"Austin">>, provider_state |-> <<"TX">>,
                     provider_zip |-> <<"73301">>]},
     !.services = {[service_id |-> 1, service_name |-> <<"Xray">>,
                    service_code |-> <<"100">>, service_category |-> <<"Imaging">>]}]

\* a store written by other means, in which Clinic B and the Aetna Gold
\* plan stand under identifiers that are not UUIDs; it is read without
\* faults
ResolverLegacy ==
  [EmptyDb EXCEPT
     !.providers = {[provider_id |-> MalformedId, provider_name |-> <<"Clinic B">>,
                     provider_city |-> <<"Boston">>, provider_state |-> None,
                     provider_zip |-> <<"02108">>]},
     !.insurance = {[insurance_id |-> MalformedId, insurance_name |-> <<"Aetna">>,
                     insurance_plan |-> <<"Gold">>]}]

\* what is known of the rows fed so far: the last row and its result, the
\* number of rows fed, and the provider identities resolved since the last
\* cache clear with the identifier each resolved to
NoResolved ==
  [row |-> RowBad, success |-> FALSE, provider_id |-> NoId, service_id |-> NoId,
   insurance_id |-> NoId, fed |-> 0, resolved |-> {}]

InitResolver ==
  /\ disk = [i \in SourceIds |-> NoFile]
  /\ queue = <<>>
  /\ db \in {EmptyDb, ResolverSeed, ResolverLegacy}
  /\ dp = EmptyDp
  /\ pc = "resolve"
  /\ scanTodo = <<>>
  /\ run = NoRun
  /\ cfg \in {c \in Configs : c.UPLOAD_TO_SUPABASE}
  /\ faulty \in BOOLEAN
  /\ (db = ResolverLegacy => ~faulty)
  /\ faults = 0
  /\ edits = 0
  /\ attempts = <<>>
  /\ obs = NoResolved

\* the (name, city, zip) of a row
Identity(row_dict) ==
  <<row_dict["Provider Name"], row_dict["City"], row_dict["Zip Code"]>>

\* one pass of the row loop of process_one_by_one: process_row on one row
ResolveRow(r) ==
  /\ pc = "resolve"
  /\ obs.fed < MaxRows
  /\ \E lookupOk \in LookupChoices :
       LET res == process_row(dp, db, r, lookupOk)
           p == process_provider(dp, db, r, lookupOk["providers"])
           s == IF is_valid_uuid(p.id)
                THEN process_service(p.dp, db, r, lookupOk["services"])
                ELSE [dp |-> p.dp, id |-> NoId]
           ins == IF is_valid_uuid(s.id)
                  THEN process_insurance(s.dp, db, r, lookupOk["insurance"])
                  ELSE [dp |-> s.dp, id |-> NoId]
       IN /\ dp' = res.dp
          /\ faults' = Bump(lookupOk = AllLookupsOk)
          /\ obs' = [row |-> r, success |-> res.success, provider_id |-> p.id,
                     service_id |-> s.id,
                     insurance_id |-> ins.id,
                     fed |-> obs.fed + 1,
                     resolved |->
                       IF \A i \in 1..Len(provider_key_fields) : Truthy(r[provider_key_fields[i]])
                       THEN obs.resolved \cup {[identity |-> Identity(r), id |-> p.id]}
                       ELSE obs.resolved]
  /\ UNCHANGED <<disk, queue, db, pc, scanTodo, run, cfg, faulty, edits, attempts>>

\* the end of a file: do_database_insertion, then clear_caches
EndFile ==
  /\ pc = "resolve"
  /\ dp # EmptyDp
  /\ \E upsertOk \in UpsertChoices :
       /\ db' = do_database_insertion(dp, db, upsertOk, cfg.pricing_nulls_distinct).db
       /\ faults' = Bump(upsertOk = AllUpsertsOk)
  /\ dp' = clear_caches(dp)
  /\ obs' = [obs EXCEPT !.resolved = {}]
  /\ UNCHANGED <<disk, queue, pc, scanTodo, run, cfg, faulty, edits, attempts>>

NextResolver ==
  \/ \E r \in ResolverRows : ResolveRow(r)
  \/ EndFile

SpecResolver == InitResolver /\ [][NextResolver]_vars

\* the provider payloads staged for an identity
StagedFor(identity) ==
  {p \in dp.providers_to_upsert :
     <<p.provider_name, p.provider_city, p.provider_zip>> = identity}

\* C6: between two cache clears, rows with the same non-empty (Provider
\* Name, City, Zip Code) resolve to the same provider identifier, at most
\* one provider payload is staged for that identity, and exactly one when
\* the store holds no provider of that identity.
C6_EntityDedup ==
  /\ \A a, b \in obs.resolved : a.identity = b.identity => (a.id = b.id /\ a.id # NoId)
  /\ \A a \in obs.resolved :
       /\ Cardinality(StagedFor(a.identity)) <= 1
       /\ (\A r \in db.providers :
             <<r.provider_name, r.provider_city, r.provider_zip>> # a.identity)
            => Cardinality(StagedFor(a.identity)) = 1

\* two different rows of the same provider, which the store does not hold,
\* have been resolved since the last cache clear
C6_Witness ==
  /\ pc = "resolve"
  /\ obs.fed = 2
  /\ Cardinality(dp.service_pricing_to_upsert) = 2
  /\ Cardinality(obs.resolved) = 1
  /\ db.providers = {}
  /\ \A a \in obs.resolved : Cardinality(StagedFor(a.identity)) = 1

\* the step in which a row goes through process_row
ResolveStep == pc = "resolve" /\ obs'.fed = obs.fed + 1

\* C27: process_row goes provider, service, insurance, pricing. It reports
\* failure exactly when the provider or the service does not resolve to a
\* well-formed identifier; a row rejected at the provider leaves the
\* service, insurance and pricing collections alone, one rejected at the
\* service leaves the insurance and pricing collections alone; an insurance
\* that is absent, half given or held under a malformed identifier does not
\* fail the row, whose pricing tuple then has a null insurance_id.
C27_RowResolutionOrder ==
  [][ResolveStep
     => LET r == obs'.row
            p == obs'.provider_id
            s == obs'.service_id
            ins == obs'.insurance_id
            later == <<dp.insurances_to_upsert, dp.insurance_cache,
                       dp.provider_services_to_upsert, dp.service_insurance_to_upsert,
                       dp.service_pricing_to_upsert>>
            later_after == <<dp'.insurances_to_upsert, dp'.insurance_cache,
                             dp'.provider_services_to_upsert, dp'.service_insurance_to_upsert,
                             dp'.service_pricing_to_upsert>>
        IN /\ obs'.success <=> (is_valid_uuid(p) /\ is_valid_uuid(s))
           /\ ~is_valid_uuid(p)
                => /\ dp'.services_to_upsert = dp.services_to_upsert
                   /\ dp'.service_cache = dp.service_cache
                   /\ later_after = later
           /\ (is_valid_uuid(p) /\ ~is_valid_uuid(s)) => later_after = later
           /\ obs'.success
                => /\ \E t \in dp'.service_pricing_to_upsert :
                        /\ t[1] = p
                        /\ t[2] = s
                        /\ t[3] = IF is_valid_uuid(ins) THEN ins ELSE NoId
                   /\ (~Truthy(r["Insurance Name"]) \/ ~Truthy(r["Plan Name"]))
                        => /\ ins = NoId
                           /\ dp'.insurances_to_upsert = dp.insurances_to_upsert
                           /\ dp'.service_insurance_to_upsert = dp.service_insurance_to_upsert]_vars

\* a row naming an insurance plan that the store holds under a malformed
\* identifier has just been accepted, its price staged without insurance
C27_Witness ==
  /\ pc = "resolve"
  /\ obs.fed >= 1
  /\ obs.success
  /\ obs.insurance_id = MalformedId
  /\ \E t \in dp.service_pricing_to_upsert :
       t[1] = obs.provider_id /\ t[2] = obs.service_id /\ t[3] = NoId
  /\ dp.service_insurance_to_upsert = {}

\* the service code a service cache key was built from: what follows "::"
KeyCode(service_key) ==
  SubSeq(service_key, Min({i \in 1..Len(service_key) : service_key[i] = "::"}) + 1,
         Len(service_key))

\* C17: within one file, a row whose service code was already resolved for
\* an earlier row gets the same service id, whatever its service name and
\* category, and at most one service payload is staged per service code.
C17_ServiceIdentityIsCode ==
  [][(ResolveStep /\ obs'.service_id # NoId)
     => /\ \A k \in DOMAIN dp.service_cache :
             KeyCode(k) = obs'.row["Service Code"]
               => obs'.service_id = dp.service_cache[k]
        /\ Cardinality({p \in dp'.services_to_upsert :
                          p.service_code = obs'.row["Service Code"]}) <= 1]_vars

\* the persisted providers of an identity
PersistedFor(d, identity) ==
  {r \in d.providers : <<r.provider_name, r.provider_city, r.provider_zip>> = identity}

\* no two persisted providers share a (name, city, zip)
OneProviderPerIdentity(d) ==
  \A a, b \in d.providers :
    <<a.provider_name, a.provider_city, a.provider_zip>>
        = <<b.provider_name, b.provider_city, b.provider_zip>> => a = b

\* C16: when the store holds a provider of the row's (name, city, zip),
\* process_provider returns that provider's id and stages no provider
\* payload; no step changes or removes a persisted provider row, and no
\* flush gives the store a second provider of an identity it holds.
C16_ProviderCreateOnce ==
  [][/\ (/\ ResolveStep
         /\ \A i \in 1..Len(provider_key_fields) : Truthy(obs'.row[provider_key_fields[i]])
         /\ PersistedFor(db, Identity(obs'.row)) # {})
        => (/\ obs'.provider_id
                 \in {r.provider_id : r \in PersistedFor(db, Identity(obs'.row))}
            /\ dp'.providers_to_upsert = dp.providers_to_upsert)
     /\ db.providers \subseteq db'.providers
     /\ (OneProviderPerIdentity(db) => OneProviderPerIdentity(db'))]_vars

\* price cells that are empty, a sentinel or not a number
NullPrices ==
  {None, EmptyStr, <<"nan">>, <<"NaN">>, <<"null">>, <<"NULL">>, <<"none">>,
   <<"N/A">>, <<"$5">>}

\* the spellings of true and false process_pricing knows
BooleanSpellings == {<<"True">>, <<"true">>, <<"False">>, <<"false">>}

\* C8: for a row whose provider and service resolve, process_row returns
\* success and exactly one pricing tuple is staged; in it a standard charge
\* or negotiated price that is empty, a sentinel or not a number is null,
\* and an in-network value that is neither true nor false is null.
C8_PricingNullability ==
  [][(/\ ResolveStep
      /\ ~MissingKeyField(obs'.row)
      /\ is_valid_uuid(obs'.provider_id)
      /\ is_valid_uuid(obs'.service_id))
     => /\ obs'.success
        /\ \E t \in dp'.service_pricing_to_upsert :
             /\ dp'.service_pricing_to_upsert = dp.service_pricing_to_upsert \cup {t}
             /\ t[1] = obs'.provider_id
             /\ (obs'.row["Standard Charge"] \in NullPrices => t[6] = None)
             /\ (obs'.row["Negotiated Price"] \in NullPrices => t[4] = None)
             /\ (obs'.row["In Network"] \notin BooleanSpellings => t[5] = None)]_vars

\* a row with an empty standard charge, negotiated price N/A and an
\* in-network cell that is neither true nor false has been accepted and
\* its pricing tuple staged with all three null
C8_Witness ==
  /\ pc = "resolve"
  /\ obs.fed > 0
  /\ obs.success
  /\ obs.row["Standard Charge"] = EmptyStr
  /\ obs.row["Negotiated Price"] = <<"N/A">>
  /\ obs.row["In Network"] = <<"yes">>
  /\ \E t \in dp.service_pricing_to_upsert :
       t[1] = obs.provider_id /\ t[4] = None /\ t[5] = None /\ t[6] = None

\* C37: whenever a pricing tuple is staged for a (provider, service), that
\* pair is staged in the provider-service set as well, and no stored
\* service_pricing row is without the provider_services row of its pair.
C37_PricingImpliesRelationship ==
  /\ \A t \in dp.service_pricing_to_upsert :
        <<t[1], t[2]>> \in dp.provider_services_to_upsert
  /\ \A r \in db.service_pricing :
        <<r.provider_id, r.service_id>> \in db.provider_services

\* C38: the staged pricing set holds at most one tuple for each
\* (provider_id, service_id, insurance_id).
C38_OnePricingTuplePerKey ==
  \A a, b \in dp.service_pricing_to_upsert :
    (a[1] = b[1] /\ a[2] = b[2] /\ a[3] = b[3]) => a = b

\* the six staging collections of a DataProcessor
StagingOf(staged) ==
  <<staged.providers_to_upsert, staged.services_to_upsert, staged.insurances_to_upsert,
    staged.provider_services_to_upsert, staged.service_insurance_to_upsert,
    staged.service_pricing_to_upsert>>

\* C39: a row for which process_row returns failure leaves the six staging
\* collections as they were.
C39_RejectedRowStagesNothing ==
  [][(ResolveStep /\ ~obs'.success) => StagingOf(dp') = StagingOf(dp)]_vars

\* ------------------------------------------------------------------------
\* One batch run on its own, over queues as earlier cycles leave them and
\* processors built with any small batch_size
\* ------------------------------------------------------------------------

\* largest batch_size a processor is built with
MaxLimit == 2

\* the status values of a queue record
Statuses == {"pending", "processing", "completed", "failed"}

\* the content of each source's file when the batch run begins
QueuedContent == [i \in SourceIds |-> IF i = 1 THEN 2 ELSE 6]

\* the record of a source's file as enqueue_file and the mark_as_ calls
\* leave it in the given status
QueuedRecord(id, src, status) ==
  [id |-> id,
   hospital_name |-> Sources[src].provider_name,
   file_name |-> Sources[src].file,
   file_hash |-> calculate_sha256(QueuedContent[src]),
   status |-> status,
   source_provider_uuid |-> Sources[src].uuid,
   retry_count |-> 0,
   error_message |-> IF status = "failed"
                     THEN Truncate(ErrorMessage("File parsing failed", 600)) ELSE None,
   processed_at |-> IF status \in {"completed", "failed"} THEN Stamp ELSE None]

\* the queues of at most one record per source, in either order of creation
Queues ==
  {<<>>}
    \cup {<<QueuedRecord(1, src, a)>> : src \in SourceIds, a \in Statuses}
    \cup {<<QueuedRecord(1, o[1], a), QueuedRecord(2, o[2], b)>> :
            o \in {<<1, 2>>, <<2, 1>>}, a \in Statuses, b \in Statuses}

\* what a source's file can hold when the batch run comes to it: the
\* content that was queued, or for the first source a content that does not
\* parse, one that parses to no rows, or one whose only row is rejected
BatchContents == [i \in SourceIds |-> IF i = 1 THEN {2, 4, 7, 8} ELSE {6}]

InitBatch ==
  /\ disk \in {d \in [SourceIds -> 0..Len(Contents)] :
                 \A i \in SourceIds : d[i] \in {NoFile} \cup BatchContents[i]}
  /\ queue \in Queues
  /\ db = EmptyDb
  /\ dp = EmptyDp
  /\ pc = "scan"
  /\ scanTodo = <<>>
  /\ run = NoRun
  /\ cfg \in Configs
  /\ faulty \in BOOLEAN
  /\ faults = 0
  /\ edits = 0
  /\ attempts = [i \in 1..Len(queue) |-> [marked |-> 0, changed |-> FALSE]]
  /\ obs = NoObs

NextBatch ==
  \/ \E batch_size \in 0..MaxLimit : BeginBatchWith(batch_size)
  \/ MarkProcessing
  \/ ParseFile
  \/ Reconcile
  \/ ProcessRows
  \/ FlushFile
  \/ FinishFile

SpecBatch == InitBatch /\ [][NextBatch]_vars

\* the step in which process_pending_files lists the pending records
ListStep == pc = "scan" /\ scanTodo = <<>> /\ pc' \in {"idle", "mark"}

Ascending(seq) == \A i, j \in 1..Len(seq) : i < j => seq[i] < seq[j]

\* the listed records whose file was there, in the order listed
ToStart == SelectSeq(obs.batch.listed, LAMBDA id : id \in obs.batch.present)

\* C13: get_pending_files(limit) returns only pending records, at most
\* limit of them, in ascending order of creation, and omits no pending
\* record older than one it returns; the batch run starts the returned
\* files that exist in that order, one after another, and all of them.
C13_PendingFifo ==
  /\ [][ListStep =>
         LET listed == obs'.batch.listed
         IN /\ \A j \in 1..Len(listed) : queue[listed[j]].status = "pending"
            /\ Len(listed) <= obs'.batch.limit
            /\ Ascending(listed)
            /\ \A i \in 1..Len(queue), j \in 1..Len(listed) :
                  (queue[i].status = "pending" /\ i < listed[j]) => i \in Range(listed)
            /\ obs'.batch.present \subseteq Range(listed)]_vars
  /\ [](/\ Len(obs.batch.started) <= Len(ToStart)
        /\ obs.batch.started = SubSeq(ToStart, 1, Len(obs.batch.started))
        /\ (pc = "idle" => obs.batch.started = ToStart))

\* a batch run with batch_size 1 has ended: it listed and started the older
\* of two pending records and the younger one is still pending
C13_Witness ==
  /\ pc = "idle"
  /\ obs.batch.limit = 1
  /\ Len(obs.batch.listed) = 1
  /\ obs.batch.started = obs.batch.listed
  /\ \E i \in 1..Len(queue) : i > obs.batch.listed[1] /\ queue[i].status = "pending"

\* the file of the task being finished raised in parse_files or parsed to
\* no rows
ParseFails(task) ==
  LET content == disk[SourceOf(task)]
  IN content # NoFile /\ (Contents[content].kind # "rows" \/ Contents[content].rows = <<>>)

\* C25: when parsing a file raises or yields no rows, and the store answers
\* its calls, the file's queue record is written failed with an error
\* message of at most 500 characters, the batch run goes on with the next
\* task, and by its end every listed file that was there has been started.
C25_FileFaultIsolation ==
  /\ [][(FinishStep /\ ParseFails(Head(run.tasks)) /\ faults' = 0)
        => LET id == Head(run.tasks).id
           IN /\ queue'[id].status = "failed"
              /\ queue'[id].error_message # None
              /\ queue'[id].error_message[2] <= 500
              /\ \A i \in 1..Len(queue) : i # id => queue'[i] = queue[i]
              /\ run'.tasks = Tail(run.tasks)
              /\ (run'.tasks # <<>> => pc' = "mark")]_vars
  /\ [](pc = "idle" => \A id \in obs.batch.present : id \in Range(obs.batch.started))

\* a batch run has ended in which the first file did not parse and was
\* written failed, and the file after it was processed and completed
C25_Witness ==
  /\ pc = "idle"
  /\ faults = 0
  /\ obs.batch.started = <<1, 2>>
  /\ queue[1].status = "failed"
  /\ queue[1].error_message # None
  /\ queue[1].error_message[2] = 500
  /\ queue[2].status = "completed"
  /\ disk[SourceOf(queue[1])] \in {4, 7}

\* C26: a file that parses to at least one row and whose every row is
\* rejected by process_row is written failed in the queue, not completed,
\* and the batch run goes on with the next task.
C26_AllRowsFailedFailsFile ==
  [][(/\ FinishStep
      /\ run.parsed
      /\ Len(run.df) >= 1
      /\ run.rows_failed = Len(run.df)
      /\ faults' = 0)
     => LET id == Head(run.tasks).id
        IN /\ queue'[id].status = "failed"
           /\ run'.tasks = Tail(run.tasks)
           /\ (run'.tasks # <<>> => pc' = "mark")]_vars

\* C30: a pending record that was listed and whose file does not exist is
\* counted as skipped and is never started; no step of the batch run
\* changes its queue record, which stays pending; and every listed record
\* whose file exists, those after it included, has been started by the end
\* of the run.
C30_AbsentFileSkipped ==
  /\ [](/\ run.skipped = Cardinality(obs.batch.absent)
        /\ obs.batch.absent \subseteq Range(obs.batch.listed)
        /\ \A id \in obs.batch.absent :
              /\ queue[id].status = "pending"
              /\ id \notin Range(obs.batch.started)
        /\ (pc = "idle"
             => \A id \in Range(obs.batch.listed) \ obs.batch.absent :
                   id \in Range(obs.batch.started)))
  /\ [][\A id \in obs'.batch.absent : queue'[id] = queue[id]]_vars

\* a batch run has ended that listed two records, passed over the first
\* (its file was absent) and processed the second to a terminal status
C30_Witness ==
  /\ pc = "idle"
  /\ obs.batch.listed = <<1, 2>>
  /\ obs.batch.absent = {1}
  /\ obs.batch.started = <<2>>
  /\ run.skipped = 1
  /\ queue[1].status = "pending"
  /\ queue[2].status \in {"completed", "failed"}

\* C33: when the processing of a file begins, and until its rows are
\* resolved, the three caches and the six staging collections are empty;
\* what is flushed for a file is what its own rows staged, starting from
\* empty caches, whatever the file before it came to.
C33_PerFileCaches ==
  /\ pc \in {"scan", "idle", "mark", "parse", "reconcile", "rows"} => dp = EmptyDp
  /\ pc = "flush"
       => \E lookupOk \in {AllLookupsOk} \cup
                           {[AllLookupsOk EXCEPT ![t] = FALSE] : t \in DOMAIN AllLookupsOk} :
             dp = process_one_by_one(EmptyDp, db, run.df, lookupOk).dp

\* the second file of a batch run is about to be processed, the first one
\* having staged rows and ended as a success or as a failure
C33_Witness ==
  /\ pc = "mark"
  /\ Len(obs.batch.started) = 1
  /\ obs.done.file_id = obs.batch.started[1]
  /\ obs.done.rows_successful >= 1
  /\ dp = EmptyDp

\* C34: a store failure while the pending records are listed aborts the
\* batch run (no file is taken up, no queue record is written) and the run
\* ends by raising an error to its caller.
C34_ListingFailureSurfaced ==
  [][(ListStep /\ faults' = faults + 1)
     => /\ pc' = "idle"
        /\ queue' = queue
        /\ obs'.batch.raised]_vars

\* C35: the batch run removes a file from disk only in the step that
\* writes the file's result, only with DELETE_AFTER_PROCESS set, only for a
\* file that came out a success, and only when the write that marks its
\* record completed went through; it removes that file and no other.
C35_DeleteOnlyAfterCompleted ==
  [][disk' # disk
     => /\ FinishStep
        /\ cfg.DELETE_AFTER_PROCESS
        /\ run.status = "success"
        /\ faults' = faults
        /\ queue'[Head(run.tasks).id].status = "completed"
        /\ disk' = [disk EXCEPT ![SourceOf(Head(run.tasks))] = NoFile]]_vars

\* a file has been processed, marked completed and removed from disk
C35_Witness ==
  /\ cfg.DELETE_AFTER_PROCESS
  /\ obs.done.status = "success"
  /\ queue[obs.done.file_id].status = "completed"
  /\ disk[SourceOf(queue[obs.done.file_id])] = NoFile

\* C36: at most one queue record says processing in any state; a file is
\* marked processing only when the file taken up before it in the same
\* batch run has been marked completed or failed; and a batch run begins
\* only when no task of an earlier run is left.
C36_StrictlySequential ==
  /\ [](Cardinality({i \in 1..Len(queue) : queue[i].status = "processing"}) <= 1)
  /\ [][(pc = "mark" /\ pc' = "parse" /\ obs.batch.started # <<>>)
         => queue[obs.batch.started[Len(obs.batch.started)]].status
              \in {"completed", "failed"}]_vars
  /\ [][ListStep => run.tasks = <<>>]_vars

\* C40: a reconciliation that returns success = false (or raises) leaves
\* the file's run and the queue as they were and is followed by the row
\* loop; the file's rows are all resolved and the result written for it is
\* what parsing and row processing alone give: success, and the record
\* completed when that write goes through.
C40_ReconcilerFailureHarmless ==
  /\ [][(pc = "reconcile" /\ pc' # "reconcile" /\ ~obs'.recon.success)
         => /\ pc' = "rows"
            /\ run' = run
            /\ queue' = queue]_vars
  /\ [][(FinishStep /\ run.parsed /\ obs.recon.ran /\ ~obs.recon.success)
         => /\ run.rows_processed = Len(run.df)
            /\ run.status = "success"
            /\ (faults' = faults
                 => queue'[Head(run.tasks).id].status = "completed")]_vars

\* a file whose reconciliation failed has been processed, all its rows
\* resolved, and its record written completed
C40_Witness ==
  /\ pc \in {"idle", "mark"}
  /\ obs.recon.ran
  /\ ~obs.recon.success
  /\ obs.done.status = "success"
  /\ obs.done.total_rows >= 1
  /\ obs.done.rows_successful = obs.done.total_rows
  /\ queue[obs.done.file_id].status = "completed"
  /\ db.service_pricing # {}

\* ------------------------------------------------------------------------
\* Batch run after batch run of one processor over a queue that nothing is
\* added to, the files staying as they are unless the run deletes them
\* ------------------------------------------------------------------------

\* the processor is built once, with its batch_size; the store answers
InitRuns ==
  /\ disk \in {d \in [SourceIds -> 0..Len(Contents)] :
                 \A i \in SourceIds : d[i] \in {NoFile} \cup BatchContents[i]}
  /\ queue \in Queues
  /\ db = EmptyDb
  /\ dp = EmptyDp
  /\ pc = "scan"
  /\ scanTodo = <<>>
  /\ run = NoRun
  /\ cfg \in Configs
  /\ faulty = FALSE
  /\ faults = 0
  /\ edits = 0
  /\ attempts = [i \in 1..Len(queue) |-> [marked |-> 0, changed |-> FALSE]]
  /\ \E batch_size \in 1..MaxLimit : obs = [NoObs EXCEPT !.batch.limit = batch_size]

\* process_pending_files of that processor
BeginRun == BeginBatchWith(obs.batch.limit)

\* run_scheduled: the next cycle's batch run
NextRun ==
  /\ pc = "idle"
  /\ pc' = "scan"
  /\ UNCHANGED <<disk, queue, db, dp, scanTodo, run, cfg, faulty, faults, edits, attempts, obs>>

NextRuns ==
  \/ BeginRun
  \/ MarkProcessing
  \/ ParseFile
  \/ Reconcile
  \/ ProcessRows
  \/ FlushFile
  \/ FinishFile
  \/ NextRun

SpecRuns == InitRuns /\ [][NextRuns]_vars

\* the batch runs keep being started and every step of a run is carried
\* through
SpecRunsLive ==
  /\ SpecRuns
  /\ WF_vars(BeginRun)
  /\ WF_vars(MarkProcessing)
  /\ WF_vars(ParseFile)
  /\ WF_vars(Reconcile)
  /\ []<>(pc # "rows")
  /\ WF_vars(FlushFile)
  /\ WF_vars(FinishFile)
  /\ WF_vars(NextRun)

\* C31: under repeated batch runs with a fixed limit, every pending record
\* whose file exists is eventually marked processing, also when older
\* pending records refer to files that are missing.
C31_NoStarvation ==
  \A i \in 1..Len(Sources) :
    (Len(queue) >= i /\ queue[i].status = "pending" /\ disk[SourceOf(queue[i])] # NoFile)
      ~> (Len(queue) >= i /\ queue[i].status = "processing")

\* ------------------------------------------------------------------------
\* One batch run of a processor built with or without change detection,
\* over a queue table in which a file name may stand twice: a completed
\* record written earlier and the pending record of the file
\* ------------------------------------------------------------------------

\* FTPProcessor(change_detection_enabled=False)
LegacyConfigs == {[c EXCEPT !.change_detection_enabled = FALSE] : c \in Configs}

\* a completed record of a source's file, then its pending record, alone
\* or followed by the pending record of the other source
LegacyQueues ==
  {<<QueuedRecord(1, src, "completed"), QueuedRecord(2, src, "pending")>> :
     src \in SourceIds}
    \cup {<<QueuedRecord(1, 1, "completed"), QueuedRecord(2, 1, "pending"),
            QueuedRecord(3, 2, "pending")>>}

InitLegacy ==
  /\ disk \in {d \in [SourceIds -> 0..Len(Contents)] :
                 \A i \in SourceIds : d[i] \in {NoFile} \cup BatchContents[i]}
  /\ queue \in LegacyQueues \cup {q \in Queues : Len(q) = 1}
  /\ db = EmptyDb
  /\ dp = EmptyDp
  /\ pc = "scan"
  /\ scanTodo = <<>>
  /\ run = NoRun
  /\ cfg \in Configs \cup LegacyConfigs
  /\ faulty \in BOOLEAN
  /\ faults = 0
  /\ edits = 0
  /\ attempts = [i \in 1..Len(queue) |-> [marked |-> 0, changed |-> FALSE]]
  /\ obs = NoObs

SpecLegacy == InitLegacy /\ [][NextBatch]_vars

MaxPasses == 2

\* files with cash-pay rows, with insured rows, and with a rejected row
ReingestFiles ==
  {Contents[1].rows, Contents[3].rows, Contents[5].rows, <<RowA2>>}

InitReingest ==
  /\ disk = [i \in SourceIds |-> NoFile]
  /\ queue = <<>>
  /\ db \in {EmptyDb, ResolverSeed}
  /\ dp = EmptyDp
  /\ pc = "rows"
  /\ scanTodo = <<>>
  /\ run \in {[NoRun EXCEPT !.parsed = TRUE, !.df = f] : f \in ReingestFiles}
  /\ cfg \in {[c EXCEPT !.pricing_nulls_distinct = b] : c \in Configs, b \in BOOLEAN}
  /\ faulty \in BOOLEAN
  /\ faults = 0
  /\ edits = 0
  /\ attempts = <<>>
  /\ obs = [pass |-> 1]

\* the end of one ingestion of the file: do_database_insertion, then
\* clear_caches; the file's rows are then resolved once more
FlushAndClear ==
  /\ pc = "flush"
  /\ \E upsertOk \in UpsertChoices :
       /\ db' = do_database_insertion(dp, db, upsertOk, cfg.pricing_nulls_distinct).db
       /\ faults' = Bump(upsertOk = AllUpsertsOk)
  /\ dp' = clear_caches(dp)
  /\ obs' = [pass |-> obs.pass + 1]
  /\ pc' = IF obs.pass < MaxPasses THEN "rows" ELSE "idle"
  /\ UNCHANGED <<disk, queue, scanTodo, run, cfg, faulty, edits, attempts>>

NextReingest == ProcessRows \/ FlushAndClear

SpecReingest == InitReingest /\ [][NextReingest]_vars

\* C18: when a file's rows are resolved and flushed a second time, after the
\* caches were cleared and with no store call having raised, the flush
\* leaves all six tables as the first flush left them: no row is added, also
\* not for pricing rows without insurance.
C18_IdempotentReingestion ==
  [][(pc = "flush" /\ obs.pass >= 2 /\ faults' = 0) => db' = db]_vars

\* ------------------------------------------------------------------------
\* One flush, upsert by upsert: do_database_insertion over the collections
\* a file's rows have staged, each bulk upsert a step that the store may
\* answer or raise on
\* ------------------------------------------------------------------------

\* a variant of FlushOrder that sends the relationships before the entities
FlushOrderRelationshipsFirst ==
  <<"provider_services", "service_insurance", "service_pricing",
    "providers", "services", "insurance">>

\* do_database_insertion: the order of the six "if self.<collection>:" blocks
FlushOrder ==
  <<"providers", "services", "insurance",
    "provider_services", "service_insurance", "service_pricing">>

\* the staging collection a table's bulk upsert sends
Staged(staged, t) ==
  CASE t = "providers" -> staged.providers_to_upsert
    [] t = "services" -> staged.services_to_upsert
    [] t = "insurance" -> staged.insurances_to_upsert
    [] t = "provider_services" -> staged.provider_services_to_upsert
    [] t = "service_insurance" -> staged.service_insurance_to_upsert
    [] t = "service_pricing" -> staged.service_pricing_to_upsert

\* the store after the bulk upsert of table t went through
UpsertInto(d, staged, t, nulls_distinct) ==
  CASE t = "providers" ->
         [d EXCEPT !.providers = UpsertById(@, staged.providers_to_upsert, "provider_id")]
    [] t = "services" ->
         [d EXCEPT !.services = UpsertById(@, staged.services_to_upsert, "service_id")]
    [] t = "insurance" ->
         [d EXCEPT !.insurance = UpsertById(@, staged.insurances_to_upsert, "insurance_id")]
    [] t = "provider_services" ->
         [d EXCEPT !.provider_services = @ \cup staged.provider_services_to_upsert]
    [] t = "service_insurance" ->
         [d EXCEPT !.service_insurance = @ \cup staged.service_insurance_to_upsert]
    [] t = "service_pricing" ->
         [d EXCEPT !.service_pricing =
            UpsertPricing(@, {PricingRecord(x) : x \in staged.service_pricing_to_upsert},
                          nulls_distinct)]

\* whether the store takes the bulk upsert of table t
Accepted(staged, t, ok, nulls_distinct) ==
  /\ ok
  /\ t = "service_pricing" =>
       PricingBatchAccepted({PricingRecord(x) : x \in staged.service_pricing_to_upsert},
                            nulls_distinct)

\* a variant of StepAfterUpsert in which a failed upsert ends the flush
StepAfterUpsertOrAbort(step, accepted) ==
  IF accepted THEN step + 1 ELSE Len(FlushOrder) + 1

\* the _insert_* helpers catch what their upsert raises and return it in
\* "errors"; do_database_insertion extends its own list and goes on
StepAfterUpsert(step, accepted) == step + 1

\* insertion_stats as do_database_insertion initialises it
NoStats ==
  [inserted |-> [t \in UpsertTables |-> 0], errors |-> <<>>]

\* the rows of the files whose staging collections are flushed
FlushFiles ==
  {Contents[1].rows, Contents[3].rows, Contents[5].rows, <<RowA2>>}

InitFlush ==
  /\ disk = [i \in SourceIds |-> NoFile]
  /\ queue = <<>>
  /\ db \in {EmptyDb, ResolverSeed}
  /\ \E f \in FlushFiles : dp = process_one_by_one(EmptyDp, db, f, AllLookupsOk).dp
  /\ pc = "flush"
  /\ scanTodo = <<>>
  /\ run = NoRun
  /\ cfg \in Configs
  /\ faulty \in BOOLEAN
  /\ faults = 0
  /\ edits = 0
  /\ attempts = <<>>
  /\ obs = [step |-> 1, issued |-> <<>>, raised |-> {}, stats |-> NoStats, before |-> db]

\* one "if self.<collection>: result = self._insert_<table>()" block
UpsertStep ==
  /\ pc = "flush"
  /\ obs.step <= Len(FlushOrder)
  /\ LET t == FlushOrder[obs.step]
     IN IF Staged(dp, t) = {}
        THEN /\ db' = db
             /\ obs' = [obs EXCEPT !.step = @ + 1]
        ELSE \E ok \in (IF faulty THEN BOOLEAN ELSE {TRUE}) :
               LET accepted == Accepted(dp, t, ok, cfg.pricing_nulls_distinct)
               IN /\ db' = IF accepted
                           THEN UpsertInto(db, dp, t, cfg.pricing_nulls_distinct)
                           ELSE db
                  /\ obs' = [obs EXCEPT
                               !.step = StepAfterUpsert(@, accepted),
                               !.issued = Append(@, t),
                               !.raised = IF ok THEN @ ELSE @ \cup {t},
                               !.stats.inserted[t] =
                                  IF accepted THEN Cardinality(Staged(dp, t)) ELSE 0,
                               !.stats.errors = IF accepted THEN @ ELSE Append(@, t)]
  /\ UNCHANGED <<disk, queue, dp, pc, scanTodo, run, cfg, faulty, faults, edits, attempts>>

\* return insertion_stats
FlushReturn ==
  /\ pc = "flush"
  /\ obs.step > Len(FlushOrder)
  /\ pc' = "terminal"
  /\ UNCHANGED <<disk, queue, db, dp, scanTodo, run, cfg, faulty, faults, edits, attempts, obs>>

NextFlush == UpsertStep \/ FlushReturn

SpecFlush == InitFlush /\ [][NextFlush]_vars

\* C23: the bulk upserts of one flush are issued in the order providers,
\* services, insurance, provider_services, service_insurance,
\* service_pricing, and when a relationship upsert is issued every entity
\* type that has something staged has had its upsert issued before.
C23_FlushOrdering ==
  LET claimed == <<"providers", "services", "insurance",
                   "provider_services", "service_insurance", "service_pricing">>
      pos(t) == CHOOSE i \in 1..Len(claimed) : claimed[i] = t
      entities == {"providers", "services", "insurance"}
  IN /\ \A i, j \in 1..Len(obs.issued) :
          i < j => pos(obs.issued[i]) < pos(obs.issued[j])
     /\ \A i \in 1..Len(obs.issued) :
          obs.issued[i] \notin entities
            => \A e \in entities :
                 Staged(dp, e) # {} => \E k \in 1..(i - 1) : obs.issued[k] = e

\* a flush that sent all six bulk upserts has returned
C23_Witness ==
  /\ pc = "terminal"
  /\ Len(obs.issued) = Len(FlushOrder)

\* C24: a flush always comes to its return; by then every table with
\* something staged has had its upsert issued, whichever of them failed, the
\* errors list names exactly the tables whose upsert failed, each table
\* whose upsert went through is counted with the rows sent and holds them,
\* and the tables whose upsert failed are as they were.
C24_FlushCollectsErrors ==
  /\ (pc = "flush" => obs.step <= Len(FlushOrder) + 1)
  /\ pc = "terminal"
       => LET failed == {obs.stats.errors[i] : i \in 1..Len(obs.stats.errors)}
              sent == {obs.issued[i] : i \in 1..Len(obs.issued)}
              atomic == do_database_insertion(dp, obs.before,
                                              [t \in UpsertTables |-> t \notin obs.raised],
                                              cfg.pricing_nulls_distinct)
          IN /\ sent = {t \in UpsertTables : Staged(dp, t) # {}}
             /\ obs.raised \subseteq failed
             /\ failed \subseteq sent
             /\ Len(obs.stats.errors) = Cardinality(failed)
             /\ \A t \in UpsertTables :
                  /\ obs.stats.inserted[t]
                       = IF t \in sent \ failed THEN Cardinality(Staged(dp, t)) ELSE 0
                  /\ t \in failed => db[t] = obs.before[t]
                  /\ t \in sent \ failed
                       => db[t] = UpsertInto(obs.before, dp, t, cfg.pricing_nulls_distinct)[t]
             /\ db = atomic.db
             /\ failed = atomic.errors

\* a flush has returned in which the services upsert failed and the
\* relationship upserts after it went through
C24_Witness ==
  /\ pc = "terminal"
  /\ obs.raised = {"services"}
  /\ obs.stats.errors = <<"services">>
  /\ obs.stats.inserted["providers"] > 0
  /\ obs.stats.inserted["service_pricing"] > 0
  /\ db.service_pricing # obs.before.service_pricing

\* ------------------------------------------------------------------------
\* One store call of the queue: through _execute_with_retry where the
\* method wraps it, directly inside the method's try / except where not
\* ------------------------------------------------------------------------

\* _execute_with_retry(..., max_retries: int = 3)
DefaultMaxRetries == 3

\* the cap of the backoff: min(2**attempt, 10)
BackoffCap == 10

\* largest max_retries the wrapper is called with
MaxRetryBudget == 3

\* the methods of DBQueue that call the store
QueueCalls ==
  {"enqueue_file", "get_pending_files", "mark_as_processing",
   "mark_as_completed", "mark_as_failed"}

\* the methods whose store calls go through _execute_with_retry
Wrapped == {"enqueue_file"}

\* str(e) of the exceptions a store call raises, word by word
ErrorTexts ==
  {<<"Connection", "reset", "by", "peer">>,
   <<"socket", "closed">>,
   <<"ReadTimeout">>,
   <<"WinError 10035">>,
   <<"The", "read", "operation", "timed", "out">>,
   <<"duplicate", "key", "value">>}

\* which of the texts the wrapper looks for a word contains: "WinError
\* 10035" as written, the others in the lower-cased word
Mentions(word) ==
  CASE word = "WinError 10035" -> {"WinError 10035"}
    [] word \in {"socket", "Socket"} -> {"socket"}
    [] word \in {"Connection", "connection", "ConnectionError"} -> {"connection"}
    [] word \in {"timeout", "Timeout", "ReadTimeout"} -> {"timeout"}
    [] OTHER -> {}

\* is_socket_error
is_socket_error(error_str) ==
  \E i \in 1..Len(error_str) : Mentions(error_str[i]) # {}

\* a variant of ShouldRetry that retries after any exception
ShouldRetryAlways(attempt, max_retries, error_str) == attempt < max_retries

\* if attempt < max_retries and is_socket_error: continue
ShouldRetry(attempt, max_retries, error_str) ==
  attempt < max_retries /\ is_socket_error(error_str)

RECURSIVE Pow2(_)
Pow2(n) == IF n = 0 THEN 1 ELSE 2 * Pow2(n - 1)

\* asyncio.sleep(min(2**attempt, 10)) before every attempt but the first
Backoff(attempt) == IF Pow2(attempt) < BackoffCap THEN Pow2(attempt) ELSE BackoffCap

InitRetry ==
  /\ disk = [i \in SourceIds |-> NoFile]
  /\ queue = <<>>
  /\ db = EmptyDb
  /\ dp = EmptyDp
  /\ pc = "call"
  /\ scanTodo = <<>>
  /\ run = NoRun
  /\ cfg \in Configs
  /\ faulty = TRUE
  /\ faults = 0
  /\ edits = 0
  /\ attempts = <<>>
  /\ \E op \in QueueCalls, max_retries \in 0..MaxRetryBudget :
       obs = [op |-> op,
              max_retries |-> IF op \in Wrapped THEN max_retries ELSE 0,
              attempt |-> 0, calls |-> 0, slept |-> <<>>, errors |-> <<>>,
              state |-> "running"]

\* one pass of the loop of _execute_with_retry
Attempt ==
  /\ pc = "call"
  /\ obs.op \in Wrapped
  /\ obs.state = "running"
  /\ obs.attempt <= obs.max_retries
  /\ \E outcome \in {<<"ok">>} \cup ErrorTexts :
       LET slept == IF obs.attempt > 0 THEN Append(obs.slept, Backoff(obs.attempt))
                    ELSE obs.slept
       IN obs' = IF outcome = <<"ok">>
                 THEN [obs EXCEPT !.calls = @ + 1, !.slept = slept, !.state = "returned"]
                 ELSE IF ShouldRetry(obs.attempt, obs.max_retries, outcome)
                 THEN [obs EXCEPT !.calls = @ + 1, !.slept = slept,
                                  !.errors = Append(@, outcome), !.attempt = @ + 1]
                 ELSE [obs EXCEPT !.calls = @ + 1, !.slept = slept,
                                  !.errors = Append(@, outcome), !.state = "raised"]
  /\ UNCHANGED <<disk, queue, db, dp, pc, scanTodo, run, cfg, faulty, faults, edits, attempts>>

\* the store call of a method that does not use the wrapper: one execute()
\* inside try / except, an exception logged and reported as False (or [])
DirectCall ==
  /\ pc = "call"
  /\ obs.op \notin Wrapped
  /\ obs.state = "running"
  /\ \E outcome \in {<<"ok">>} \cup ErrorTexts :
       obs' = IF outcome = <<"ok">>
              THEN [obs EXCEPT !.calls = @ + 1, !.state = "returned"]
              ELSE [obs EXCEPT !.calls = @ + 1, !.errors = Append(@, outcome),
                               !.state = "failed"]
  /\ UNCHANGED <<disk, queue, db, dp, pc, scanTodo, run, cfg, faulty, faults, edits, attempts>>

NextRetry == Attempt \/ DirectCall

SpecRetry == InitRetry /\ [][NextRetry]_vars

\* a socket, connection or timeout error, by the words of its text
TransientText(error_str) ==
  \E i \in 1..Len(error_str) :
     error_str[i] \in {"WinError 10035", "socket", "Socket", "Connection", "connection",
                       "ConnectionError", "timeout", "Timeout", "ReadTimeout"}

\* C28: the retry wrapper calls the store operation at most max_retries + 1
\* times (4 with the default) and its loop counter only goes up, to at most
\* max_retries; it goes on to another attempt only after a socket,
\* connection or timeout error, sleeping min(2^attempt, 10) before it; it
\* raises the last error when that error is not transient, no later than
\* the first such error, or when the error is transient and max_retries + 1
\* calls have been made.
C28_BoundedRetry ==
  /\ [](obs.op \in Wrapped
         => /\ obs.calls <= obs.max_retries + 1
            /\ (obs.max_retries = DefaultMaxRetries => obs.calls <= 4)
            /\ obs.attempt <= obs.max_retries
            /\ Len(obs.slept) <= obs.max_retries
            /\ \A i \in 1..Len(obs.slept) :
                  obs.slept[i] = (IF i = 1 THEN 2 ELSE IF i = 2 THEN 4 ELSE IF i = 3 THEN 8 ELSE 10)
            /\ \A i \in 1..(Len(obs.errors) - 1) : TransientText(obs.errors[i])
            /\ obs.state = "running"
                 => /\ obs.calls = obs.attempt
                    /\ Len(obs.errors) = obs.calls
                    /\ \A i \in 1..Len(obs.errors) : TransientText(obs.errors[i])
            /\ obs.state = "raised"
                 => /\ Len(obs.errors) = obs.calls
                    /\ \/ ~TransientText(obs.errors[Len(obs.errors)])
                       \/ obs.calls = obs.max_retries + 1)
  /\ [][obs.op \in Wrapped
         => /\ obs.state \in {"returned", "raised"} => obs' = obs
            /\ obs'.calls = obs.calls + 1
            /\ obs'.state = "running" => obs'.attempt = obs.attempt + 1]_vars

\* the wrapper has raised a transient error after four calls with the
\* default max_retries, having slept 2, 4 and 8 seconds
C28_Witness ==
  /\ obs.op \in Wrapped
  /\ obs.max_retries = DefaultMaxRetries
  /\ obs.state = "raised"
  /\ obs.calls = 4
  /\ obs.slept = <<2, 4, 8>>
  /\ TransientText(obs.errors[4])

\* C29: in every store call of the queue, whichever method makes it (the
\* wrapper being used with its default max_retries), a transient error met
\* while fewer than max_retries + 1 calls have been made is followed by
\* another attempt: the call does not end in failure after it.
C29_QueueCallsRetried ==
  [][(/\ obs'.calls = obs.calls + 1
      /\ Len(obs'.errors) = Len(obs.errors) + 1
      /\ TransientText(obs'.errors[Len(obs'.errors)])
      /\ obs'.calls < DefaultMaxRetries + 1
      /\ (obs.op \in Wrapped => obs.max_retries = DefaultMaxRetries))
     => obs'.state = "running"]_vars

====
